---- MODULE Spec2Model ----
(***************************************************************************)
(* State-machine model of the useGeminiLive hook                           *)
(* (packages/react/src/useGeminiLive.ts): the session state machine with   *)
(* its sockets and reconnect timers, microphone capture, frame capture,    *)
(* the transcript buffers and the playback queue.                          *)
(*                                                                         *)
(* Every socket created by connect() keeps its own onopen / onmessage /    *)
(* onerror / onclose closures; none of them tests whether the socket is    *)
(* still socketRef.current, so the model keeps every socket ever created   *)
(* and lets each one deliver its events.                                   *)
(*                                                                         *)
(* Not modelled: the metrics counters, debug logging, session recording    *)
(* and the onConnectionChange / onError / onTranscript callbacks; none of  *)
(* them is read back by the code modelled here.                            *)
(***************************************************************************)
EXTENDS Integers, Sequences, FiniteSets, TLC

\* ------------------------------------------------------------------------
\* Program constants (option defaults)
\* ------------------------------------------------------------------------
defaultMaxAttempts == 5

initialReconnectDelay == 1000

maxReconnectDelay == 10000

reconnectBackoffFactor == 2

NormalClosure == 1000

minBufferMs == 200

NominalSourceRate == 24000

AbnormalClosure == 1006

\* ------------------------------------------------------------------------
\* Bounds of the model
\* ------------------------------------------------------------------------
\* sockets created in one behaviour of Spec
MaxSockets == 2

\* sockets created in one behaviour of SpecRace
MaxRaceSockets == 3

\* live sockets of SpecRace at one time
MaxRaceLive == 2

\* sockets created in one behaviour of SpecInbound
MaxInboundSockets == 2

\* sockets created in one behaviour of SpecBackoff
MaxBackoffSockets == 6

\* startMicCapture calls in one behaviour
MaxCaptures == 1

\* characters held by one transcript buffer
MaxBufLen == 1

\* finalized transcripts kept in the list
MaxTranscripts == 1

\* chunks held by the playback queue
MaxQueue == 2

\* buffer sources whose onended is outstanding at one time
MaxSources == 1

\* sockets created in the specification of the playback
MaxPlaybackSockets == 2

\* sockets created in the specification of the transcript channels
MaxTranscriptSockets == 2

\* characters pending in the two transcript buffers together, there
MaxPending == 3

\* finalized transcripts kept in the list, there
MaxTranscriptList == 2

\* milliseconds that pass on the clock
MaxClock == 1

\* calls of executeWorkflow
MaxExecutions == 2

\* sockets created in the specification of the tool calls
MaxToolSockets == 2

\* tool_call messages received
MaxToolCalls == 2

\* tool_result messages sent for one tool call
MaxToolResults == 2

\* the float samples converted are the multiples of 1 / SampleScale in [-1, 1]
SampleScale == 50000

VARIABLES
  options,             \* the hook's options: vad, welcomeMessage, tools, proxyUrlValid
                       \* (new WebSocket(url) does not throw), reconnection.maxAttempts,
                       \* the sample rate the playback AudioContext reports, autoplay
                       \* (the browser lets a new AudioContext start running) and
                       \* onToolCall (a handler is given)
  connectionState,     \* useState<ConnectionState>
  error,               \* useState<string | null>, "null" for null
  socketRef,           \* index into sockets, 0 for null
  sockets,             \* every WebSocket created so far, with its closures
  reconnectAttempts,   \* reconnectAttemptsRef.current
  reconnectDelay,      \* reconnectDelayRef.current
  videoRef,            \* TRUE when videoRef.current (and canvasRef.current) is set
  frameInterval,       \* TRUE when frameIntervalRef.current holds a live interval
  isMuted,             \* useState isMuted (the value of the latest render)
  isUserSpeaking,      \* isUserSpeakingRef.current
  captures,            \* every startMicCapture() invocation so far
  micStreamRef,        \* index into captures, 0 for null
  inputContextRef,     \* index into captures, 0 for null
  audioWorkletRef,     \* index into captures, 0 for null
  vadRef,              \* index into captures, 0 for null
  isSpeakerMuted,      \* useState isSpeakerMuted (the value of the latest render)
  audioBuffer,         \* audioBufferRef.current: the queued chunks, each with its number
                       \* of samples and (history) its arrival number
  isPlaying,           \* isPlayingRef.current
  isSpeaking,          \* useState isSpeaking
  playbackContext,     \* playbackContextRef.current: "null", or the state of the
                       \* context, "suspended" or "open" (running)
  sourcesPlaying,      \* buffer sources started whose onended is still to come
  resuming,            \* the playAudio calls waiting at `await ctx.resume()`, in call order
  inputBuf,            \* inputTranscriptBufferRef.current
  outputBuf,           \* outputTranscriptBufferRef.current
  inputTimer,          \* TRUE when inputTranscriptTimeoutRef holds a pending timeout
  outputTimer,         \* TRUE when outputTranscriptTimeoutRef holds a pending timeout
  streamingUserText,   \* useState streamingUserText, <<"null">> for null
  streamingText,       \* useState streamingText, <<"null">> for null
  transcripts,         \* useState transcripts
  inputFragments,      \* history: the fragments of the user channel received since its
                       \* debounce timeout last fired or was cleared
  outputFragments,     \* history: the same for the assistant channel
  inputSince,          \* history: the fragments of the user channel received since the
                       \* last Transcript of the channel was emitted (or disconnect)
  outputSince,         \* history: the same for the assistant channel
  now,                 \* Date.now()
  workflowRegistry,    \* workflowRegistryRef.current: the workflow registered, or NoWorkflow
  executions,          \* the calls of executeWorkflow: where each one stands, its
                       \* execution object and (history) the steps it started
  workflowPaused,      \* workflowPausedRef.current
  workflowCancelled,   \* workflowCancelledRef.current
  workflowExecution,   \* useState workflowExecution: its status, or "null"
  dom,                 \* whether the DOM condition of the workflow's steps holds now
  lastControl,         \* history: "pause", "resume" or "cancel" when the last step was
                       \* that call made with no execution or with a terminal one
  codec,               \* one audio sample on its way through the two conversions: the
                       \* float (as numerator over SampleScale), then the int16 the
                       \* worklet makes of it, then the float playAudio makes of that
                       \* (as numerator over 32768)
  toolCalls,           \* the tool_call messages received, by toolCallId: the tool name,
                       \* where the onToolCall handler stands and (history) the number
                       \* of tool_result messages sent with that id
  outbox,              \* what the last step emitted: the messages it handed to
                       \* WebSocket.send and the buffers it handed to source.start()
  closesSinceOpen,     \* history: abnormal closes since the last onopen
  closesSinceReset,    \* history: abnormal closes since the attempt counter was last set to 0
  autoSinceConnected,  \* history: reconnects scheduled since 'connected' was last entered
                       \* or disconnect() / retry() last started the session afresh
  discarded,           \* history: the last disconnect() found text in a transcript buffer
  lastCommand          \* history: the last of connect / retry / disconnect the application
                       \* called: "none", "connect", "retry", "retry-ignored", "disconnect"
                       \* right after disconnect(), "disconnect-again" right after a
                       \* disconnect() that followed one at once, "disconnected" once
                       \* another step followed

sessVars == <<connectionState, error, socketRef, sockets, reconnectAttempts, reconnectDelay>>

frameVars == <<videoRef, frameInterval>>

micVars == <<isUserSpeaking, captures, micStreamRef, inputContextRef, audioWorkletRef, vadRef>>

audioVars == <<audioBuffer, isPlaying, isSpeaking, playbackContext, sourcesPlaying, resuming>>

trVars == <<inputBuf, outputBuf, inputTimer, outputTimer, streamingUserText, streamingText,
            transcripts, inputFragments, outputFragments, inputSince, outputSince, now>>

histVars == <<closesSinceOpen, closesSinceReset, autoSinceConnected, discarded>>

wfVars == <<workflowRegistry, executions, workflowPaused, workflowCancelled,
           workflowExecution, dom, lastControl>>

vars == <<options, sessVars, frameVars, isMuted, micVars, isSpeakerMuted, audioVars, trVars,
          wfVars, toolCalls, codec, outbox, histVars, lastCommand>>

\* ------------------------------------------------------------------------
\* Helpers
\* ------------------------------------------------------------------------
Min(a, b) == IF a <= b THEN a ELSE b

RECURSIVE Pow(_, _)
Pow(b, e) == IF e <= 0 THEN 1 ELSE b * Pow(b, e - 1)

NullText == <<"null">>

\* 0x8000 and 0x7FFF of the worklet, 32768.0 of playAudio
NegativeScale == 32768

PositiveScale == 32767

DecodeScale == 32768

ConnectionStates == {"idle", "connecting", "connected", "reconnecting", "error", "disconnected"}

\* socketRef.current?.readyState === WebSocket.OPEN
SocketRefOpen(ref, socks) == ref # 0 /\ socks[ref].readyState = "OPEN"

\* BackoffDelay with the exponent off by one (attempt instead of attempt - 1)
BackoffDelayOffByOne(delay, attempt) ==
  Min(delay * Pow(reconnectBackoffFactor, attempt), maxReconnectDelay)

\* the delay onclose computes once reconnectAttemptsRef has been incremented to `attempt`
BackoffDelay(delay, attempt) ==
  Min(delay * Pow(reconnectBackoffFactor, attempt - 1), maxReconnectDelay)

\* `new WebSocket(wsUrl)` with the closures of the render that called connect
NewSocket(capMuted, capSpeakerMuted) ==
  [readyState |-> "CONNECTING", opened |-> FALSE, setupSeen |-> FALSE,
   capMuted |-> capMuted, capSpeakerMuted |-> capSpeakerMuted,
   timer |-> "none", delay |-> 0, stale |-> FALSE]

\* sample rates the playback AudioContext may report
DeviceRates == {48000}

\* A socket that is CLOSED with no reconnect timer outstanding delivers no further
\* event; only its readyState can still be read (through socketRef), so the rest of
\* its record is dropped.
ClosedSocket ==
  [readyState |-> "CLOSED", opened |-> FALSE, setupSeen |-> FALSE,
   capMuted |-> FALSE, capSpeakerMuted |-> FALSE,
   timer |-> "none", delay |-> 0, stale |-> FALSE]

DefaultOptions ==
  [vad |-> FALSE, welcomeMessage |-> FALSE, tools |-> FALSE, proxyUrlValid |-> TRUE,
   maxAttempts |-> defaultMaxAttempts, deviceRate |-> 48000, autoplay |-> TRUE,
   onToolCall |-> FALSE]

\* values of reconnection.maxAttempts: reconnection switched off, one attempt, the default
AttemptLimits == {0, 1, defaultMaxAttempts}

OptionSets ==
  [vad : BOOLEAN, welcomeMessage : BOOLEAN, tools : BOOLEAN, proxyUrlValid : BOOLEAN,
   maxAttempts : AttemptLimits, deviceRate : DeviceRates, autoplay : BOOLEAN,
   onToolCall : BOOLEAN]

\* reconnection?.maxAttempts ?? 5
maxReconnectAttempts == options.maxAttempts

Msg(kind, sock) == [kind |-> kind, sock |-> sock]

\* no step: an undefined step id
NoStep == ""

\* no sample is under conversion
NoSample == [phase |-> "none"]

\* no workflow under the id asked for
NoWorkflow == [entryPoint |-> NoStep]

\* ------------------------------------------------------------------------
\* Initial state: the hook right after its first render
\* ------------------------------------------------------------------------
InitHook ==
  /\ options \in OptionSets
  /\ connectionState = "idle"
  /\ error = "null"
  /\ socketRef = 0
  /\ sockets = <<>>
  /\ reconnectAttempts = 0
  /\ reconnectDelay = initialReconnectDelay
  /\ videoRef = FALSE
  /\ frameInterval = FALSE
  /\ isMuted = FALSE
  /\ isUserSpeaking = FALSE
  /\ captures = <<>>
  /\ micStreamRef = 0
  /\ inputContextRef = 0
  /\ audioWorkletRef = 0
  /\ vadRef = 0
  /\ isSpeakerMuted = FALSE
  /\ audioBuffer = <<>>
  /\ isPlaying = FALSE
  /\ isSpeaking = FALSE
  /\ playbackContext = "null"
  /\ sourcesPlaying = 0
  /\ resuming = <<>>
  /\ inputBuf = <<>>
  /\ outputBuf = <<>>
  /\ inputTimer = FALSE
  /\ outputTimer = FALSE
  /\ streamingUserText = NullText
  /\ streamingText = NullText
  /\ transcripts = <<>>
  /\ inputFragments = <<>>
  /\ outputFragments = <<>>
  /\ inputSince = <<>>
  /\ outputSince = <<>>
  /\ now = 0
  /\ workflowRegistry = NoWorkflow
  /\ executions = <<>>
  /\ workflowPaused = FALSE
  /\ workflowCancelled = FALSE
  /\ workflowExecution = "null"
  /\ dom = FALSE
  /\ lastControl = "none"
  /\ toolCalls = <<>>
  /\ outbox = <<>>
  /\ closesSinceOpen = 0
  /\ discarded = FALSE
  /\ closesSinceReset = 0
  /\ autoSinceConnected = 0
  /\ lastCommand = "none"

\* the hook after its first render, no sample under conversion
Init == InitHook /\ codec = NoSample

\* history only: lastCommand after a step that is not connect, retry or disconnect
AfterStep ==
  IF lastCommand \in {"disconnect", "disconnect-again"} THEN "disconnected" ELSE lastCommand

\* history only: disconnect() is the last of connect / retry / disconnect that was called
DisconnectLast == lastCommand \in {"disconnect", "disconnect-again", "disconnected"}

\* ------------------------------------------------------------------------
\* Pieces of handlers shared by several operations
\* ------------------------------------------------------------------------
\* captureAndSendFrame: the frame it sends, if any, given the socket state `socks`
FrameSent(ref, socks, video) ==
  IF video /\ SocketRefOpen(ref, socks) THEN <<Msg("frame", ref)>> ELSE <<>>

\* stopMicCapture: what it does to the capture objects the four refs point at
StoppedCaptures ==
  [c \in DOMAIN captures |->
     [captures[c] EXCEPT
        !.vadLive = IF c = vadRef THEN FALSE ELSE @,
        !.streamLive = IF c = micStreamRef THEN FALSE ELSE @,
        !.ctxOpen = IF c = inputContextRef THEN FALSE ELSE @]]

\* stopMicCapture; `speaking` is the user-speaking flag when no VAD is installed
StopMic(speaking) ==
  /\ captures' = StoppedCaptures
  /\ isUserSpeaking' = IF vadRef # 0 THEN FALSE ELSE speaking
  /\ micStreamRef' = 0
  /\ inputContextRef' = 0
  /\ audioWorkletRef' = 0
  /\ vadRef' = 0

stopMicCapture == StopMic(isUserSpeaking)

stopFrameCapture == frameInterval' = FALSE

\* The body of connect(videoElement), run on the socket list `socks` with the
\* error string `errIn`; capMuted / capSpeakerMuted are the isMuted and
\* isSpeakerMuted values closed over by the connect being called; maxS bounds the
\* sockets of a behaviour.
ConnectCall(socks, errIn, withVideo, capMuted, capSpeakerMuted, maxS) ==
  IF SocketRefOpen(socketRef, socks)
  THEN /\ sockets' = socks
       /\ error' = errIn
       /\ UNCHANGED <<connectionState, socketRef, videoRef>>
  ELSE /\ videoRef' = (videoRef \/ withVideo)
       /\ IF options.proxyUrlValid
          THEN /\ Len(socks) < maxS
               /\ sockets' = Append(socks, NewSocket(capMuted, capSpeakerMuted))
               /\ socketRef' = Len(socks) + 1
               /\ connectionState' = "connecting"
               /\ error' = "null"
          ELSE /\ sockets' = socks
               /\ socketRef' = socketRef
               /\ connectionState' = "error"
               /\ error' = "Failed to connect to AI"

\* reconnection is attempted for this close code with this counter value
ShouldReconnect(code, attempts) ==
  code # NormalClosure /\ attempts < maxReconnectAttempts

\* The body of socket.onclose for socket s closing with `code`; errIn is the error
\* string when the handler starts.
OnClose(s, code, errIn) ==
  /\ stopFrameCapture
  /\ stopMicCapture
  /\ IF ShouldReconnect(code, reconnectAttempts)
     THEN /\ reconnectAttempts' = reconnectAttempts + 1
          /\ sockets' = [sockets EXCEPT ![s].readyState = "CLOSED",
                                        ![s].timer = "pending",
                                        ![s].delay = BackoffDelay(reconnectDelay,
                                                                  reconnectAttempts + 1)]
          /\ connectionState' = "reconnecting"
          /\ error' = errIn
          /\ autoSinceConnected' = autoSinceConnected + 1
     ELSE /\ reconnectAttempts' = reconnectAttempts
          /\ sockets' = [sockets EXCEPT ![s] = ClosedSocket]
          /\ autoSinceConnected' = autoSinceConnected
          /\ IF reconnectAttempts >= maxReconnectAttempts
             THEN /\ connectionState' = "error"
                  /\ error' = "Connection lost. Please refresh the page to reconnect."
             ELSE /\ connectionState' = "disconnected"
                  /\ error' = errIn
  /\ closesSinceOpen' = IF code # NormalClosure THEN closesSinceOpen + 1 ELSE closesSinceOpen
  /\ discarded' = discarded
  /\ closesSinceReset' = IF code # NormalClosure THEN closesSinceReset + 1 ELSE closesSinceReset
  /\ outbox' = <<>>
  /\ lastCommand' = AfterStep
  /\ UNCHANGED <<options, wfVars, toolCalls, codec, socketRef, reconnectDelay, videoRef, isMuted, isSpeakerMuted,
                 audioVars, trVars>>

\* ------------------------------------------------------------------------
\* Commands of the hook
\* ------------------------------------------------------------------------
\* connect(videoElement?) called by the application from the latest render
Connect(withVideo, maxS) ==
  /\ ConnectCall(sockets, error, withVideo, isMuted, isSpeakerMuted, maxS)
  /\ outbox' = <<>>
  /\ lastCommand' = "connect"
  /\ UNCHANGED <<options, wfVars, toolCalls, codec, reconnectAttempts, reconnectDelay, frameInterval, isMuted, micVars,
                 isSpeakerMuted, audioVars, trVars, histVars>>

\* a retry that is also permitted while a reconnect is pending
RetryAllowedWhileReconnecting(state) == state \in {"error", "disconnected", "reconnecting"}

\* retry is permitted in these states
RetryAllowed(state) == state \in {"error", "disconnected"}

retry(maxS) ==
  /\ IF RetryAllowed(connectionState)
     THEN /\ reconnectAttempts' = 0
          /\ reconnectDelay' = initialReconnectDelay
          /\ closesSinceReset' = 0
          /\ autoSinceConnected' = 0
          /\ ConnectCall(sockets, "null", videoRef, isMuted, isSpeakerMuted, maxS)
     ELSE UNCHANGED <<sessVars, videoRef, closesSinceReset, autoSinceConnected>>
  /\ outbox' = <<>>
  /\ lastCommand' = IF RetryAllowed(connectionState) THEN "retry" ELSE "retry-ignored"
  /\ UNCHANGED <<options, wfVars, toolCalls, codec, frameInterval, isMuted, micVars, isSpeakerMuted, audioVars, trVars,
                 closesSinceOpen, discarded>>

\* socket.close(1000, 'User disconnected') on socketRef.current
ClosedByClient(socks, ref) ==
  IF ref # 0 /\ socks[ref].readyState \in {"CONNECTING", "OPEN"}
  THEN [socks EXCEPT ![ref].readyState = "CLOSING"]
  ELSE socks

\* history only: the reconnect timers that are pending when disconnect() runs
MarkStale(socks) ==
  [s \in DOMAIN socks |->
     [socks[s] EXCEPT !.stale = IF socks[s].timer = "pending" THEN TRUE ELSE @]]

\* a disconnect that leaves the queued chunks in place
KeepAudioQueue ==
  /\ audioBuffer' = audioBuffer
  /\ isPlaying' = FALSE
  /\ isSpeaking' = FALSE

\* disconnect: "Clear audio queue and stop playback"
ClearAudioQueue ==
  /\ audioBuffer' = <<>>
  /\ isPlaying' = FALSE
  /\ isSpeaking' = FALSE

\* disconnect: playbackContextRef.current.close(). A closed context stops processing
\* audio: its sources never reach their end, and an ended event that was already on
\* its way finds the queue empty and the flags cleared, so it changes nothing. The
\* resume() promises still pending on the context are never fulfilled.
ClosePlaybackContext ==
  /\ playbackContext' = "null"
  /\ sourcesPlaying' = 0
  /\ resuming' = <<>>

\* a disconnect that leaves the text of the two transcript buffers where it is
KeepTranscriptBuffers == UNCHANGED <<inputBuf, outputBuf>>

\* inputTranscriptBufferRef.current = ''; outputTranscriptBufferRef.current = ''
DiscardTranscriptBuffers ==
  /\ inputBuf' = <<>>
  /\ outputBuf' = <<>>

disconnect ==
  /\ stopFrameCapture
  /\ StopMic(FALSE)
  /\ ClearAudioQueue
  /\ ClosePlaybackContext
  /\ inputTimer' = FALSE
  /\ outputTimer' = FALSE
  /\ DiscardTranscriptBuffers
  /\ streamingText' = NullText
  /\ streamingUserText' = NullText
  /\ sockets' = MarkStale(ClosedByClient(sockets, socketRef))
  /\ socketRef' = 0
  /\ connectionState' = "idle"
  /\ transcripts' = <<>>
  /\ inputFragments' = <<>>
  /\ outputFragments' = <<>>
  /\ inputSince' = <<>>
  /\ outputSince' = <<>>
  /\ discarded' = (inputBuf # <<>> \/ outputBuf # <<>>)
  /\ now' = now
  /\ reconnectAttempts' = 0
  /\ reconnectDelay' = initialReconnectDelay
  /\ closesSinceReset' = 0
  /\ autoSinceConnected' = 0
  /\ outbox' = <<>>
  /\ lastCommand' = IF lastCommand \in {"disconnect", "disconnect-again"}
                     THEN "disconnect-again" ELSE "disconnect"
  /\ UNCHANGED <<options, wfVars, toolCalls, codec, error, videoRef, isMuted, isSpeakerMuted, closesSinceOpen>>

\* ------------------------------------------------------------------------
\* Transport events
\* ------------------------------------------------------------------------
\* an onopen that announces the session as connected
SocketOpenConnects(s) ==
  /\ sockets[s].readyState = "CONNECTING"
  /\ sockets' = [sockets EXCEPT ![s].readyState = "OPEN", ![s].opened = TRUE]
  /\ reconnectAttempts' = 0
  /\ connectionState' = "connected"
  /\ outbox' = IF options.tools THEN <<Msg("setup_tools", s)>> ELSE <<>>
  /\ closesSinceOpen' = 0
  /\ discarded' = discarded
  /\ closesSinceReset' = 0
  /\ lastCommand' = AfterStep
  /\ UNCHANGED <<options, wfVars, toolCalls, codec, error, socketRef, reconnectDelay, frameVars, isMuted,
                 micVars, isSpeakerMuted, audioVars, trVars, autoSinceConnected>>

\* socket.onopen
SocketOpen(s) ==
  /\ sockets[s].readyState = "CONNECTING"
  /\ sockets' = [sockets EXCEPT ![s].readyState = "OPEN", ![s].opened = TRUE]
  /\ reconnectAttempts' = 0
  /\ outbox' = IF options.tools THEN <<Msg("setup_tools", s)>> ELSE <<>>
  /\ closesSinceOpen' = 0
  /\ discarded' = discarded
  /\ closesSinceReset' = 0
  /\ lastCommand' = AfterStep
  /\ UNCHANGED <<options, wfVars, toolCalls, codec, connectionState, error, socketRef, reconnectDelay, frameVars, isMuted,
                 micVars, isSpeakerMuted, audioVars, trVars, autoSinceConnected>>

\* a close event without an error event: the closing handshake completed
SocketClose(s, code) ==
  /\ sockets[s].opened
  /\ sockets[s].readyState \in {"OPEN", "CLOSING"}
  /\ OnClose(s, code, error)

\* the connection failed: socket.onerror, then socket.onclose with code 1006
SocketFail(s) ==
  /\ sockets[s].readyState \in {"CONNECTING", "OPEN", "CLOSING"}
  /\ OnClose(s, AbnormalClosure, "Connection error")

\* the setTimeout callback scheduled by the onclose of socket s
FireReconnectTimer(s, maxS) ==
  /\ sockets[s].timer = "pending"
  /\ ConnectCall([sockets EXCEPT ![s] = ClosedSocket],
                 error, videoRef, sockets[s].capMuted, sockets[s].capSpeakerMuted, maxS)
  /\ outbox' = <<>>
  /\ lastCommand' = AfterStep
  /\ UNCHANGED <<options, wfVars, toolCalls, codec, reconnectAttempts, reconnectDelay, frameInterval, isMuted, micVars,
                 isSpeakerMuted, audioVars, trVars, histVars>>

\* ------------------------------------------------------------------------
\* Messages from the relay (socket.onmessage); delivered only while OPEN
\* ------------------------------------------------------------------------
\* a startMicCapture() call that has reached its first await (getUserMedia)
NewCapture(capMuted) ==
  [stage |-> "gum", capMuted |-> capMuted, streamLive |-> FALSE, ctxOpen |-> FALSE,
   vadLive |-> FALSE, vadFailed |-> FALSE]

\* case 'setup_complete'; the relay sends it once per connection
SetupComplete(s) ==
  /\ sockets[s].readyState = "OPEN"
  /\ ~sockets[s].setupSeen
  /\ Len(captures) < MaxCaptures
  /\ sockets' = [sockets EXCEPT ![s].setupSeen = TRUE]
  /\ connectionState' = "connected"
  /\ frameInterval' = (frameInterval \/ videoRef)
  /\ captures' = Append(captures, NewCapture(sockets[s].capMuted))
  /\ outbox' = FrameSent(socketRef, sockets, videoRef)
               \o (IF options.welcomeMessage /\ SocketRefOpen(socketRef, sockets)
                   THEN <<Msg("text", socketRef)>> ELSE <<>>)
  /\ autoSinceConnected' = 0
  /\ lastCommand' = AfterStep
  /\ UNCHANGED <<options, wfVars, toolCalls, codec, error, socketRef, reconnectAttempts, reconnectDelay, videoRef, isMuted,
                 isUserSpeaking, micStreamRef, inputContextRef, audioWorkletRef, vadRef,
                 isSpeakerMuted, audioVars, trVars, closesSinceOpen, closesSinceReset, discarded>>

\* case 'error'
ServerError(s) ==
  /\ sockets[s].readyState = "OPEN"
  /\ error' = "Server error"
  /\ connectionState' = "error"
  /\ outbox' = <<>>
  /\ lastCommand' = AfterStep
  /\ UNCHANGED <<options, wfVars, toolCalls, codec, socketRef, sockets, reconnectAttempts, reconnectDelay, frameVars,
                 isMuted, micVars, isSpeakerMuted, audioVars, trVars, histVars>>

\* case 'disconnected'
ServerDisconnected(s) ==
  /\ sockets[s].readyState = "OPEN"
  /\ connectionState' = "disconnected"
  /\ stopFrameCapture
  /\ stopMicCapture
  /\ outbox' = <<>>
  /\ lastCommand' = AfterStep
  /\ UNCHANGED <<options, wfVars, toolCalls, codec, error, socketRef, sockets, reconnectAttempts, reconnectDelay, videoRef,
                 isMuted, isSpeakerMuted, audioVars, trVars, histVars>>

\* ---- transcripts -------------------------------------------------------
\* String.prototype.trim on a string of the characters "a" and " "
RECURSIVE TrimStart(_)
TrimStart(str) ==
  IF str = <<>> THEN <<>> ELSE IF Head(str) = " " THEN TrimStart(Tail(str)) ELSE str

RECURSIVE TrimEnd(_)
TrimEnd(str) ==
  IF str = <<>> THEN <<>>
  ELSE IF str[Len(str)] = " " THEN TrimEnd(SubSeq(str, 1, Len(str) - 1)) ELSE str

Trim(str) == TrimEnd(TrimStart(str))

\* the non-empty text fragments the relay sends
Fragments == {<<"a">>, <<" ">>}

\* a buffer that holds the last fragment only
ReplaceBuffer(buf, text) == text

\* a buffer that takes the new fragment in front
PrependFragment(buf, text) == text \o buf

\* inputTranscriptBufferRef.current += data.text (and the same for the output buffer)
AppendFragment(buf, text) == buf \o text

\* the Transcript record addTranscript builds: id is Date.now().toString()
Transcript(role, text) == [id |-> now, role |-> role, text |-> text]

\* addTranscript
WithTranscript(list, role, text) == Append(list, Transcript(role, text))

\* case 'input_transcription' with a non-empty text
InputTranscription(s, text) ==
  /\ sockets[s].readyState = "OPEN"
  /\ inputBuf' = AppendFragment(inputBuf, text)
  /\ streamingUserText' = Trim(AppendFragment(inputBuf, text))
  /\ inputTimer' = TRUE
  /\ inputFragments' = Append(inputFragments, text)
  /\ inputSince' = Append(inputSince, text)
  /\ outbox' = <<>>
  /\ lastCommand' = AfterStep
  /\ UNCHANGED <<options, wfVars, toolCalls, codec, sessVars, frameVars, isMuted, micVars, isSpeakerMuted, audioVars,
                 outputBuf, outputTimer, streamingText, transcripts, outputFragments, outputSince, now,
                 histVars>>

\* case 'output_transcription' with a non-empty text
OutputTranscription(s, text) ==
  /\ sockets[s].readyState = "OPEN"
  /\ outputBuf' = AppendFragment(outputBuf, text)
  /\ streamingText' = Trim(AppendFragment(outputBuf, text))
  /\ outputTimer' = TRUE
  /\ outputFragments' = Append(outputFragments, text)
  /\ outputSince' = Append(outputSince, text)
  /\ outbox' = <<>>
  /\ lastCommand' = AfterStep
  /\ UNCHANGED <<options, wfVars, toolCalls, codec, sessVars, frameVars, isMuted, micVars, isSpeakerMuted, audioVars,
                 inputBuf, inputTimer, streamingUserText, transcripts, inputFragments, inputSince, now,
                 histVars>>

\* the debounce timeout of the user channel fires
InputTimerFire ==
  /\ inputTimer
  /\ inputTimer' = FALSE
  /\ IF Trim(inputBuf) # <<>>
     THEN /\ transcripts' = WithTranscript(transcripts, "user", Trim(inputBuf))
          /\ inputBuf' = <<>>
          /\ inputSince' = <<>>
     ELSE UNCHANGED <<transcripts, inputBuf, inputSince>>
  /\ streamingUserText' = NullText
  /\ inputFragments' = <<>>
  /\ outbox' = <<>>
  /\ lastCommand' = AfterStep
  /\ UNCHANGED <<options, wfVars, toolCalls, codec, sessVars, frameVars, isMuted, micVars, isSpeakerMuted, audioVars,
                 outputBuf, outputTimer, streamingText, outputFragments, outputSince, now, histVars>>

\* an assistant timeout that clears the streaming value of the user channel as well
OutputTimerFireClearingBoth ==
  /\ outputTimer
  /\ outputTimer' = FALSE
  /\ IF Trim(outputBuf) # <<>>
     THEN /\ transcripts' = WithTranscript(transcripts, "assistant", Trim(outputBuf))
          /\ outputBuf' = <<>>
          /\ outputSince' = <<>>
     ELSE UNCHANGED <<transcripts, outputBuf, outputSince>>
  /\ streamingText' = NullText
  /\ streamingUserText' = NullText
  /\ outputFragments' = <<>>
  /\ outbox' = <<>>
  /\ lastCommand' = AfterStep
  /\ UNCHANGED <<options, wfVars, toolCalls, codec, sessVars, frameVars, isMuted, micVars, isSpeakerMuted, audioVars,
                 inputBuf, inputTimer, inputFragments, inputSince, now, histVars>>

\* the debounce timeout of the assistant channel fires
OutputTimerFire ==
  /\ outputTimer
  /\ outputTimer' = FALSE
  /\ IF Trim(outputBuf) # <<>>
     THEN /\ transcripts' = WithTranscript(transcripts, "assistant", Trim(outputBuf))
          /\ outputBuf' = <<>>
          /\ outputSince' = <<>>
     ELSE UNCHANGED <<transcripts, outputBuf, outputSince>>
  /\ streamingText' = NullText
  /\ outputFragments' = <<>>
  /\ outbox' = <<>>
  /\ lastCommand' = AfterStep
  /\ UNCHANGED <<options, wfVars, toolCalls, codec, sessVars, frameVars, isMuted, micVars, isSpeakerMuted, audioVars,
                 inputBuf, inputTimer, streamingUserText, inputFragments, inputSince, now, histVars>>

\* a millisecond passes on the clock
Tick ==
  /\ now < MaxClock
  /\ now' = now + 1
  /\ outbox' = <<>>
  /\ lastCommand' = AfterStep
  /\ UNCHANGED <<options, wfVars, toolCalls, codec, sessVars, frameVars, isMuted, micVars, isSpeakerMuted, audioVars,
                 inputBuf, outputBuf, inputTimer, outputTimer, streamingUserText,
                 streamingText, transcripts, inputFragments, outputFragments, inputSince,
                 outputSince, histVars>>

\* ---- frame capture -----------------------------------------------------
\* the setInterval callback: captureAndSendFrame
FrameTick ==
  /\ frameInterval
  /\ outbox' = FrameSent(socketRef, sockets, videoRef)
  /\ lastCommand' = AfterStep
  /\ UNCHANGED <<options, wfVars, toolCalls, codec, sessVars, frameVars, isMuted, micVars, isSpeakerMuted, audioVars,
                 trVars, histVars>>

\* ---- playback ----------------------------------------------------------
\* a decoded and resampled chunk; id is its arrival number (history)
Chunk(samples, id) == [samples |-> samples, id |-> id]

RECURSIVE Sum(_)
Sum(q) == IF q = <<>> THEN 0 ELSE Head(q).samples + Sum(Tail(q))

\* the arrival numbers of the chunks of q, in queue order
Ids(q) == [i \in DOMAIN q |-> q[i].id]

\* history only: the arrival number of the next chunk, given the chunks outstanding
NextId(q, pend) ==
  LET used == {q[i].id : i \in DOMAIN q} \cup {pend[i].id : i \in DOMAIN pend} \cup {0}
  IN  1 + CHOOSE m \in used : \A k \in used : k <= m

minBufferSamples == (minBufferMs * NominalSourceRate) \div 1000

\* resampleAudio: the length of its result
ResampledLength(n, sourceRate, targetRate) ==
  IF sourceRate = targetRate THEN n ELSE (n * targetRate) \div sourceRate

minSamplesForPlayback(targetRate) == (minBufferSamples * targetRate) \div NominalSourceRate

\* byte lengths of the audio payloads the relay sends (1: shorter than one sample)
ByteLengths == {1, 4800, 9600}

\* sample rates named by the mimeType of an audio message
SourceRates == {24000}

\* a queue that takes a new chunk at its front
Unshift(q, chunk) == <<chunk>> \o q

\* audioBufferRef.current.push(resampled)
Push(q, chunk) == Append(q, chunk)

\* the state of `new AudioContext()`
NewContextState == IF options.autoplay THEN "open" ELSE "suspended"

\* the playback state the handlers below transform: the queue, the two flags, the
\* sources outstanding and the buffers started so far in this step
PlaybackState ==
  [q |-> audioBuffer, playing |-> isPlaying, speaking |-> isSpeaking,
   sources |-> sourcesPlaying, started |-> <<>>]

\* the buffer source built from queue q and started; by is "playAudio" or "onended"
BufferStart(q, by) ==
  [kind |-> "playback", ids |-> Ids(q), samples |-> Sum(q), by |-> by]

\* a playBufferedAudio that leaves the queue as it is when it starts a buffer
playBufferedAudioKeepingQueue(st, ctx, by) ==
  IF ctx = "null" \/ st.q = <<>> \/ Sum(st.q) = 0
  THEN [st EXCEPT !.playing = FALSE, !.speaking = FALSE]
  ELSE [st EXCEPT !.sources = @ + 1,
                  !.started = Append(@, BufferStart(st.q, by))]

\* playBufferedAudio() on playback state st with context ctx
playBufferedAudio(st, ctx, by) ==
  IF ctx = "null" \/ st.q = <<>> \/ Sum(st.q) = 0
  THEN [st EXCEPT !.playing = FALSE, !.speaking = FALSE]
  ELSE [st EXCEPT !.q = <<>>,
                  !.sources = @ + 1,
                  !.started = Append(@, BufferStart(st.q, by))]

\* a playAudio that starts playback whenever the playback is idle
StartsPlaybackWhenIdle(playing, total, targetRate) == ~playing

\* playAudio: "Start playback when we have enough buffered"
StartsPlayback(playing, total, targetRate) ==
  ~playing /\ total >= minSamplesForPlayback(targetRate)

\* playAudio from the decode on (after the speaker-mute test and the resume), for
\* a chunk of `bytes` bytes at `rate` with arrival number id
PlayDecoded(st, bytes, rate, id) ==
  LET aligned == bytes - (bytes % 2)
      q == Push(st.q, Chunk(ResampledLength(aligned \div 2, rate, options.deviceRate), id))
  IN  IF aligned < 2
      THEN st
      ELSE IF StartsPlayback(st.playing, Sum(q), options.deviceRate)
           THEN playBufferedAudio([st EXCEPT !.q = q, !.playing = TRUE, !.speaking = TRUE],
                                  "open", "playAudio")
           ELSE [st EXCEPT !.q = q]

\* the playback variables take the values of playback state st
SetPlayback(st) ==
  /\ audioBuffer' = st.q
  /\ isPlaying' = st.playing
  /\ isSpeaking' = st.speaking
  /\ sourcesPlaying' = st.sources
  /\ outbox' = st.started

\* case 'audio': playAudio(data, mimeType) of the connect that created socket s
AudioChunk(s, bytes, rate) ==
  /\ sockets[s].readyState = "OPEN"
  /\ Len(audioBuffer) + Len(resuming) < MaxQueue
  /\ isPlaying \/ sourcesPlaying < MaxSources
  /\ IF sockets[s].capSpeakerMuted
     THEN /\ audioBuffer' = <<>>
          /\ outbox' = <<>>
          /\ UNCHANGED <<isPlaying, isSpeaking, playbackContext, sourcesPlaying, resuming>>
     ELSE LET ctx == IF playbackContext = "null" THEN NewContextState ELSE playbackContext
              id == IF bytes < 2 THEN 0 ELSE NextId(audioBuffer, resuming)
          IN  IF ctx = "suspended"
              THEN /\ playbackContext' = "suspended"
                   /\ resuming' = Append(resuming, [bytes |-> bytes, rate |-> rate, id |-> id])
                   /\ outbox' = <<>>
                   /\ UNCHANGED <<audioBuffer, isPlaying, isSpeaking, sourcesPlaying>>
              ELSE /\ playbackContext' = "open"
                   /\ SetPlayback(PlayDecoded(PlaybackState, bytes, rate, id))
                   /\ UNCHANGED resuming
  /\ lastCommand' = AfterStep
  /\ UNCHANGED <<options, wfVars, toolCalls, codec, sessVars, frameVars, isMuted, micVars, isSpeakerMuted, trVars,
                 histVars>>

\* the playAudio calls `pend` continue one after the other from playback state st
RECURSIVE Resumed(_, _)
Resumed(st, pend) ==
  IF pend = <<>>
  THEN st
  ELSE Resumed(PlayDecoded(st, Head(pend).bytes, Head(pend).rate, Head(pend).id), Tail(pend))

\* the context starts running: the pending resume() promises are fulfilled in the
\* order of the calls, within one task, and each playAudio continues at once
ResumeResolved ==
  /\ playbackContext = "suspended"
  /\ resuming # <<>>
  /\ playbackContext' = "open"
  /\ resuming' = <<>>
  /\ SetPlayback(Resumed(PlaybackState, resuming))
  /\ lastCommand' = AfterStep
  /\ UNCHANGED <<options, wfVars, toolCalls, codec, sessVars, frameVars, isMuted, micVars, isSpeakerMuted, trVars,
                 histVars>>

\* source.onended
PlaybackEnded ==
  /\ sourcesPlaying > 0
  /\ LET st == [PlaybackState EXCEPT !.sources = @ - 1]
     IN  IF Len(audioBuffer) > 0
         THEN SetPlayback(playBufferedAudio(st, playbackContext, "onended"))
         ELSE SetPlayback([st EXCEPT !.playing = FALSE, !.speaking = FALSE])
  /\ lastCommand' = AfterStep
  /\ UNCHANGED <<options, wfVars, toolCalls, codec, sessVars, frameVars, isMuted, micVars, isSpeakerMuted,
                 playbackContext, resuming, trVars, histVars>>

setSpeakerMutedState(muted) ==
  /\ isSpeakerMuted' = muted
  /\ audioBuffer' = IF muted THEN <<>> ELSE audioBuffer
  /\ outbox' = <<>>
  /\ lastCommand' = AfterStep
  /\ UNCHANGED <<options, wfVars, toolCalls, codec, sessVars, frameVars, isMuted, micVars, isPlaying, isSpeaking,
                 playbackContext, sourcesPlaying, resuming, trVars, histVars>>

\* ---- microphone capture ------------------------------------------------
setMutedState(muted) ==
  /\ isMuted' = muted
  /\ outbox' = <<>>
  /\ lastCommand' = AfterStep
  /\ UNCHANGED <<options, wfVars, toolCalls, codec, sessVars, frameVars, micVars, isSpeakerMuted, audioVars, trVars,
                 histVars>>

\* getUserMedia resolves: the stream and the 16 kHz input context are created
MicGranted(c) ==
  /\ captures[c].stage = "gum"
  /\ captures' = [captures EXCEPT ![c].stage = "module", ![c].streamLive = TRUE,
                                  ![c].ctxOpen = TRUE]
  /\ micStreamRef' = c
  /\ inputContextRef' = c
  /\ outbox' = <<>>
  /\ lastCommand' = AfterStep
  /\ UNCHANGED <<options, wfVars, toolCalls, codec, sessVars, frameVars, isMuted, isUserSpeaking, audioWorkletRef, vadRef,
                 isSpeakerMuted, audioVars, trVars, histVars>>

\* a capture failure that puts the session into the error state
MicDeniedEndsSession(c) ==
  /\ captures[c].stage = "gum"
  /\ captures' = [captures EXCEPT ![c].stage = "failed"]
  /\ error' = "Failed to access microphone"
  /\ connectionState' = "error"
  /\ outbox' = <<>>
  /\ lastCommand' = AfterStep
  /\ UNCHANGED <<options, wfVars, toolCalls, codec, socketRef, sockets, reconnectAttempts, reconnectDelay,
                 frameVars, isMuted, isUserSpeaking, micStreamRef, inputContextRef,
                 audioWorkletRef, vadRef, isSpeakerMuted, audioVars, trVars, histVars>>

\* getUserMedia rejects: the catch block of startMicCapture
MicDenied(c) ==
  /\ captures[c].stage = "gum"
  /\ captures' = [captures EXCEPT ![c].stage = "failed"]
  /\ error' = "Failed to access microphone"
  /\ outbox' = <<>>
  /\ lastCommand' = AfterStep
  /\ UNCHANGED <<options, wfVars, toolCalls, codec, connectionState, socketRef, sockets, reconnectAttempts, reconnectDelay,
                 frameVars, isMuted, isUserSpeaking, micStreamRef, inputContextRef,
                 audioWorkletRef, vadRef, isSpeakerMuted, audioVars, trVars, histVars>>

\* the stage startMicCapture reaches once the worklet node is installed
AfterWorklet == IF options.vad THEN "vadinit" ELSE "running"

\* addModule resolves: the worklet node is created and its port handler installed.
\* On a context that stopMicCapture has closed meanwhile, node creation either
\* throws (the catch block runs) or yields a node that never processes audio.
ModuleLoaded(c, throws) ==
  /\ captures[c].stage = "module"
  /\ throws => ~captures[c].ctxOpen
  /\ IF throws
     THEN /\ captures' = [captures EXCEPT ![c].stage = "failed"]
          /\ error' = "Failed to access microphone"
          /\ UNCHANGED audioWorkletRef
     ELSE /\ captures' = [captures EXCEPT ![c].stage = AfterWorklet]
          /\ audioWorkletRef' = c
          /\ UNCHANGED error
  /\ outbox' = <<>>
  /\ lastCommand' = AfterStep
  /\ UNCHANGED <<options, wfVars, toolCalls, codec, connectionState, socketRef, sockets, reconnectAttempts, reconnectDelay,
                 frameVars, isMuted, isUserSpeaking, micStreamRef, inputContextRef, vadRef,
                 isSpeakerMuted, audioVars, trVars, histVars>>

\* MicVAD.new resolves: vadRef is set and the detector started
VadReady(c) ==
  /\ captures[c].stage = "vadinit"
  /\ captures' = [captures EXCEPT ![c].stage = "running", ![c].vadLive = TRUE]
  /\ vadRef' = c
  /\ outbox' = <<>>
  /\ lastCommand' = AfterStep
  /\ UNCHANGED <<options, wfVars, toolCalls, codec, sessVars, frameVars, isMuted, isUserSpeaking, micStreamRef,
                 inputContextRef, audioWorkletRef, isSpeakerMuted, audioVars, trVars, histVars>>

\* the import or MicVAD.new rejects: capture continues without VAD
VadFailed(c) ==
  /\ captures[c].stage = "vadinit"
  /\ captures' = [captures EXCEPT ![c].stage = "running", ![c].vadFailed = TRUE]
  /\ outbox' = <<>>
  /\ lastCommand' = AfterStep
  /\ UNCHANGED <<options, wfVars, toolCalls, codec, sessVars, frameVars, isMuted, isUserSpeaking, micStreamRef,
                 inputContextRef, audioWorkletRef, vadRef, isSpeakerMuted, audioVars, trVars,
                 histVars>>

\* onSpeechStart / onSpeechEnd of the detector of capture c
VadSpeech(c, speaking) ==
  /\ captures[c].vadLive
  /\ captures[c].streamLive
  /\ isUserSpeaking' = speaking
  /\ outbox' = <<>>
  /\ lastCommand' = AfterStep
  /\ UNCHANGED <<options, wfVars, toolCalls, codec, sessVars, frameVars, isMuted, captures, micStreamRef, inputContextRef,
                 audioWorkletRef, vadRef, isSpeakerMuted, audioVars, trVars, histVars>>

\* the frame handler lets a frame through (the two early returns of port.onmessage)
FramePasses(capMuted, vad, speaking) == ~capMuted /\ (~vad \/ speaking)

\* worklet.port.onmessage of capture c: one captured frame
MicFrame(c) ==
  /\ captures[c].stage \in {"vadinit", "running"}
  /\ captures[c].ctxOpen
  /\ outbox' = IF /\ FramePasses(captures[c].capMuted, options.vad, isUserSpeaking)
                  /\ SocketRefOpen(socketRef, sockets)
               THEN <<Msg("audio", socketRef)>>
               ELSE <<>>
  /\ lastCommand' = AfterStep
  /\ UNCHANGED <<options, wfVars, toolCalls, codec, sessVars, frameVars, isMuted, micVars, isSpeakerMuted, audioVars,
                 trVars, histVars>>

\* ------------------------------------------------------------------------
\* Specifications
\* ------------------------------------------------------------------------
\* the sockets that can still deliver an event or fire a reconnect timer
LiveSockets == {s \in DOMAIN sockets : sockets[s] # ClosedSocket}

\* maxS bounds the sockets of a behaviour; the application issues connect and retry
\* only while mayConnect holds
SessionNext(maxS, mayConnect, videos) ==
  \/ \E withVideo \in videos : mayConnect /\ Connect(withVideo, maxS)
  \/ mayConnect /\ retry(maxS)
  \/ disconnect
  \/ \E s \in DOMAIN sockets : SocketOpen(s)
  \/ \E s \in DOMAIN sockets, code \in {NormalClosure, AbnormalClosure} : SocketClose(s, code)
  \/ \E s \in DOMAIN sockets : SocketFail(s)
  \/ \E s \in DOMAIN sockets : FireReconnectTimer(s, maxS)
  \/ \E s \in DOMAIN sockets : SetupComplete(s)
  \/ \E s \in DOMAIN sockets : ServerError(s)
  \/ \E s \in DOMAIN sockets : ServerDisconnected(s)

\* microphone capture, voice activity, the mute command and the frame interval
IngressNext ==
  \/ \E m \in BOOLEAN : setMutedState(m)
  \/ \E c \in DOMAIN captures : MicGranted(c)
  \/ \E c \in DOMAIN captures : MicDenied(c)
  \/ \E c \in DOMAIN captures, throws \in BOOLEAN : ModuleLoaded(c, throws)
  \/ \E c \in DOMAIN captures : VadReady(c)
  \/ \E c \in DOMAIN captures : VadFailed(c)
  \/ \E c \in DOMAIN captures, speaking \in BOOLEAN : VadSpeech(c, speaking)
  \/ \E c \in DOMAIN captures : MicFrame(c)
  \/ FrameTick

\* inbound transcript fragments and audio chunks, their timers and the speaker mute
InboundNext ==
  \/ \E s \in DOMAIN sockets, t \in Fragments :
       /\ Len(inputBuf) + Len(t) <= MaxBufLen
       /\ Len(transcripts) < MaxTranscripts
       /\ InputTranscription(s, t)
  \/ \E s \in DOMAIN sockets, t \in Fragments :
       /\ Len(outputBuf) + Len(t) <= MaxBufLen
       /\ Len(transcripts) < MaxTranscripts
       /\ OutputTranscription(s, t)
  \/ InputTimerFire
  \/ OutputTimerFire
  \/ \E s \in DOMAIN sockets, b \in ByteLengths, r \in SourceRates : AudioChunk(s, b, r)
  \/ PlaybackEnded
  \/ \E m \in BOOLEAN : setSpeakerMutedState(m)

\* The session state machine with the outbound side
InitIngress ==
  /\ Init
  /\ options.autoplay
  /\ ~options.onToolCall
  /\ options.proxyUrlValid
  /\ ~options.tools
  /\ options.maxAttempts = 1

Next == SessionNext(MaxSockets, LiveSockets = {}, BOOLEAN) \/ IngressNext

Spec == InitIngress /\ [][Next]_vars

\* The session state machine with the inbound side, under the default options
InitInbound == Init /\ options = DefaultOptions

NextInbound ==
  \/ SessionNext(MaxInboundSockets, LiveSockets = {}, {FALSE})
  \/ InboundNext

SpecInbound == InitInbound /\ [][NextInbound]_vars

\* ---- workflow engine ----------------------------------------------------
\* Array.isArray(step.next) ? step.next[0] : step.next
First(next) == IF next = <<>> THEN NoStep ELSE next[1]

\* nextSteps[1]
Second(next) == IF Len(next) < 2 THEN NoStep ELSE next[2]

StepIds == {"w", "c", "a", "b", "e"}

\* the values of onError of the condition step: undefined, or a step
ErrorSteps == {NoStep, "e"}

\* a workflow: a wait step, then a condition step with two successors, the first of
\* them a browser_control step; onError is the onError of these two steps, action
\* says whether the browser_control step names an action, condition whether a step
\* has a DOM condition
WorkflowWith(onError, action) ==
  [entryPoint |-> "w",
   steps |-> [id \in StepIds |->
     CASE id = "w" -> [type |-> "wait", condition |-> FALSE, action |-> FALSE,
                       next |-> <<"c">>, onError |-> NoStep]
       [] id = "c" -> [type |-> "condition", condition |-> TRUE, action |-> FALSE,
                       next |-> <<"a", "b">>, onError |-> onError]
       [] id = "a" -> [type |-> "browser_control", condition |-> FALSE, action |-> action,
                       next |-> <<>>, onError |-> onError]
       [] id = "b" -> [type |-> "ai_prompt", condition |-> FALSE, action |-> FALSE,
                       next |-> <<>>, onError |-> NoStep]
       [] id = "e" -> [type |-> "wait", condition |-> FALSE, action |-> FALSE,
                       next |-> <<>>, onError |-> NoStep]]]

WellFormedWorkflows ==
  {WorkflowWith(onError, action) : onError \in ErrorSteps, action \in BOOLEAN}

\* an id that is the key of no step
MissingStep == "x"

\* the workflow whose entryPoint is `entry`
EnteredAt(entry) == [WorkflowWith(NoStep, TRUE) EXCEPT !.entryPoint = entry]

\* the workflow whose browser_control step has an onError, and whose ai_prompt step
\* a next, that is the key of no step
DanglingTargets ==
  [WorkflowWith(NoStep, TRUE) EXCEPT !.steps["a"].onError = MissingStep,
                                     !.steps["b"].next = <<MissingStep>>]

\* workflows that name a step they do not have, or no entry point at all
MalformedWorkflows == {EnteredAt(MissingStep), EnteredAt(NoStep), DanglingTargets}

Workflows == WellFormedWorkflows \cup MalformedWorkflows

\* checkCondition(condition), for a step with (present) or without a condition
checkCondition(present) == IF ~present THEN TRUE ELSE dom

\* a result of executeWorkflowStep and the step that follows
StepResult(success, message, nextStepId) ==
  [await |-> "none", success |-> success, error |-> message, nextStepId |-> nextStepId]

\* executeWorkflowStep waits: for the timeout of a wait step ("wait"), or for
\* executeBrowserControl ("action")
Suspended(for) == [await |-> for]

\* executeWorkflowStep(step) up to its first await
executeWorkflowStep(step) ==
  IF step.condition /\ ~checkCondition(step.condition)
  THEN StepResult(FALSE, "Condition not met", step.onError)
  ELSE CASE step.type = "browser_control" ->
              IF ~step.action THEN StepResult(FALSE, "No action specified", NoStep)
              ELSE Suspended("action")
         [] step.type = "wait" -> Suspended("wait")
         [] step.type = "condition" ->
              StepResult(TRUE, "",
                         IF checkCondition(step.condition) THEN First(step.next)
                         ELSE IF Second(step.next) # NoStep THEN Second(step.next)
                         ELSE step.onError)
         [] step.type = "ai_prompt" -> StepResult(TRUE, "", First(step.next))

\* the execution object, where the call stands (pc: "wait", "action", "paused",
\* "done"), its local currentStepId and, as history, the steps it started, the value
\* of the DOM condition at each step recorded, and the number of steps started when
\* cancelWorkflow() was first called during one of its wait steps (0: never)
NewExecution(workflow) ==
  [workflow |-> workflow, pc |-> "done", currentStepId |-> NoStep, status |-> "running",
   error |-> "", history |-> <<>>, started |-> <<>>, cancelPoint |-> 0]

\* a run of executeWorkflow between two awaits: the execution, the messages sent and
\* the status last given to setWorkflowExecution ("": not called)
Run(ex) == [ex |-> ex, sent |-> <<>>, shown |-> ""]

\* after the loop: lines 1339-1346
Finished(run, cancelled) ==
  LET ex == run.ex
      status == IF cancelled THEN "failed"
                ELSE IF ex.status = "running" THEN "completed" ELSE ex.status
      message == IF cancelled THEN "Workflow cancelled" ELSE ex.error
  IN  [run EXCEPT !.ex = [ex EXCEPT !.pc = "done", !.status = status, !.error = message],
                  !.shown = status]

\* `Step not found: ${currentStepId}`
StepNotFound(stepId) == "Step not found: " \o stepId

RECURSIVE Loop(_, _, _, _)
RECURSIVE Completed(_, _, _, _)

\* from `execution.history.push` to the end of the loop body, for result res of the
\* step run.ex.currentStepId
Completed(run, res, cancelled, paused) ==
  LET ex == run.ex
      step == ex.workflow.steps[ex.currentStepId]
      pushed == [ex EXCEPT !.history =
                   Append(@, [stepId |-> ex.currentStepId, success |-> res.success,
                              error |-> res.error, conditionHeld |-> dom])]
  IN  IF ~res.success /\ step.onError = NoStep
      THEN Finished([run EXCEPT !.ex = [pushed EXCEPT !.status = "failed",
                                                      !.error = res.error]], cancelled)
      ELSE Loop([run EXCEPT !.ex = pushed], res.nextStepId, cancelled, paused)

\* the while loop of executeWorkflow from its head, with currentStepId = stepId, up
\* to the next await that suspends it or to its end
Loop(run, stepId, cancelled, paused) ==
  IF stepId = NoStep \/ cancelled
  THEN Finished(run, cancelled)
  ELSE IF paused
  THEN [run EXCEPT !.ex = [run.ex EXCEPT !.pc = "paused", !.currentStepId = stepId]]
  ELSE IF stepId \notin DOMAIN run.ex.workflow.steps
  THEN Finished([run EXCEPT !.ex = [run.ex EXCEPT !.status = "failed",
                                                  !.error = StepNotFound(stepId)]], cancelled)
  ELSE LET step == run.ex.workflow.steps[stepId]
           res == executeWorkflowStep(step)
           begun == [run EXCEPT !.ex = [run.ex EXCEPT !.currentStepId = stepId,
                                                      !.started = Append(@, stepId)],
                                !.shown = run.ex.status,
                                !.sent = IF /\ res.await = "none" /\ res.success
                                            /\ step.type = "ai_prompt"
                                            /\ SocketRefOpen(socketRef, sockets)
                                         THEN Append(@, Msg("text", socketRef)) ELSE @]
       IN  IF res.await = "none"
           THEN Completed(begun, res, cancelled, paused)
           ELSE [begun EXCEPT !.ex = [begun.ex EXCEPT !.pc = res.await]]

\* the effects of a run of execution e on the variables of the hook
SetRun(e, run) ==
  /\ executions' = IF e > Len(executions) THEN Append(executions, run.ex)
                   ELSE [executions EXCEPT ![e] = run.ex]
  /\ workflowExecution' = IF run.shown = "" THEN workflowExecution ELSE run.shown
  /\ outbox' = run.sent
  /\ lastControl' = "none"
  /\ lastCommand' = AfterStep

\* history only: call `name` of pauseWorkflow, resumeWorkflow or cancelWorkflow is
\* made with no execution or with a terminal one
Terminal == {"null", "completed", "failed"}

NoteControl(name) == lastControl' = IF workflowExecution \in Terminal THEN name ELSE "none"

\* the variables the workflow engine leaves alone
NotOfWorkflow ==
  <<options, sessVars, frameVars, isMuted, micVars, isSpeakerMuted, audioVars, trVars,
    toolCalls, codec, histVars>>

\* registerWorkflow(workflow), under the one id used
registerWorkflow(workflow) ==
  /\ workflowRegistry' = workflow
  /\ outbox' = <<>>
  /\ lastControl' = "none"
  /\ lastCommand' = AfterStep
  /\ UNCHANGED <<executions, workflowPaused, workflowCancelled, workflowExecution, dom>>
  /\ UNCHANGED NotOfWorkflow

\* executeWorkflow(id) up to its first await
executeWorkflow ==
  /\ Len(executions) < MaxExecutions
  /\ IF workflowRegistry = NoWorkflow
     THEN /\ SetRun(Len(executions) + 1,
                    [Run([NewExecution(NoWorkflow) EXCEPT !.status = "failed",
                                                          !.error = "Workflow not found"])
                       EXCEPT !.shown = "failed"])
          /\ UNCHANGED <<workflowPaused, workflowCancelled>>
     ELSE /\ workflowPaused' = FALSE
          /\ workflowCancelled' = FALSE
          /\ SetRun(Len(executions) + 1,
                    Loop([Run(NewExecution(workflowRegistry)) EXCEPT !.shown = "running"],
                         workflowRegistry.entryPoint, FALSE, FALSE))
  /\ UNCHANGED <<workflowRegistry, dom>>
  /\ UNCHANGED NotOfWorkflow

\* the timeout of the wait step of execution e fires
WaitElapsed(e) ==
  /\ executions[e].pc = "wait"
  /\ LET step == executions[e].workflow.steps[executions[e].currentStepId]
     IN  SetRun(e, Completed(Run(executions[e]), StepResult(TRUE, "", First(step.next)),
                             workflowCancelled, workflowPaused))
  /\ UNCHANGED <<workflowRegistry, workflowPaused, workflowCancelled, dom>>
  /\ UNCHANGED NotOfWorkflow

\* executeBrowserControl of the step of execution e returns, with success or not
ActionDone(e, success) ==
  /\ executions[e].pc = "action"
  /\ LET step == executions[e].workflow.steps[executions[e].currentStepId]
     IN  SetRun(e, Completed(Run(executions[e]),
                             StepResult(success, "Action failed",
                                        IF success THEN First(step.next) ELSE step.onError),
                             workflowCancelled, workflowPaused))
  /\ UNCHANGED <<workflowRegistry, workflowPaused, workflowCancelled, dom>>
  /\ UNCHANGED NotOfWorkflow

\* the 100 ms timeout of the pause loop of execution e fires
PausePoll(e) ==
  /\ executions[e].pc = "paused"
  /\ SetRun(e, Loop(Run(executions[e]), executions[e].currentStepId,
                    workflowCancelled, workflowPaused))
  /\ UNCHANGED <<workflowRegistry, workflowPaused, workflowCancelled, dom>>
  /\ UNCHANGED NotOfWorkflow

pauseWorkflow ==
  /\ IF workflowExecution = "running"
     THEN workflowPaused' = TRUE /\ workflowExecution' = "paused"
     ELSE UNCHANGED <<workflowPaused, workflowExecution>>
  /\ NoteControl("pause")
  /\ outbox' = <<>>
  /\ lastCommand' = AfterStep
  /\ UNCHANGED <<workflowRegistry, executions, workflowCancelled, dom>>
  /\ UNCHANGED NotOfWorkflow

resumeWorkflow ==
  /\ IF workflowExecution = "paused"
     THEN workflowPaused' = FALSE /\ workflowExecution' = "running"
     ELSE UNCHANGED <<workflowPaused, workflowExecution>>
  /\ NoteControl("resume")
  /\ outbox' = <<>>
  /\ lastCommand' = AfterStep
  /\ UNCHANGED <<workflowRegistry, executions, workflowCancelled, dom>>
  /\ UNCHANGED NotOfWorkflow

\* history only: cancelWorkflow() is called; the executions suspended in a wait step
\* note how many steps they have started
NoteCancel(ex) ==
  IF ex.pc = "wait" /\ ex.status = "running" /\ ex.cancelPoint = 0
  THEN [ex EXCEPT !.cancelPoint = Len(ex.started)] ELSE ex

\* a cancelWorkflow that does not look at the status of the execution
CancelsAlways(status) == TRUE

\* cancelWorkflow: workflowExecution?.status === 'running' || ... === 'paused'
CancelAllowed(status) == status \in {"running", "paused"}

cancelWorkflow ==
  /\ IF CancelAllowed(workflowExecution)
     THEN workflowCancelled' = TRUE /\ workflowPaused' = FALSE
     ELSE UNCHANGED <<workflowCancelled, workflowPaused>>
  /\ NoteControl("cancel")
  /\ executions' = [e \in DOMAIN executions |-> NoteCancel(executions[e])]
  /\ outbox' = <<>>
  /\ lastCommand' = AfterStep
  /\ UNCHANGED <<workflowRegistry, workflowExecution, dom>>
  /\ UNCHANGED NotOfWorkflow

\* the page changes: the DOM condition of the steps starts or ceases to hold
DomChange ==
  /\ dom' = ~dom
  /\ outbox' = <<>>
  /\ lastControl' = "none"
  /\ lastCommand' = AfterStep
  /\ UNCHANGED <<workflowRegistry, executions, workflowPaused, workflowCancelled,
                 workflowExecution>>
  /\ UNCHANGED NotOfWorkflow

\* The workflow engine alone: the socket is never opened; one workflow is registered
NextWorkflow ==
  \/ \E w \in Workflows : workflowRegistry = NoWorkflow /\ registerWorkflow(w)
  \/ executeWorkflow
  \/ \E e \in DOMAIN executions : WaitElapsed(e)
  \/ \E e \in DOMAIN executions, ok \in BOOLEAN : ActionDone(e, ok)
  \/ \E e \in DOMAIN executions : PausePoll(e)
  \/ pauseWorkflow
  \/ resumeWorkflow
  \/ cancelWorkflow
  \/ DomChange

InitWorkflow == Init /\ options = DefaultOptions

SpecWorkflow == InitWorkflow /\ [][NextWorkflow]_vars

\* execution e is suspended in the timeout of a wait step or in executeBrowserControl
Awaiting(e) == e \in DOMAIN executions /\ executions[e].pc \in {"wait", "action"}

\* The same with the timers and promises the browser is bound to settle: no execution
\* stays suspended in a wait step or in executeBrowserControl forever (WaitElapsed and
\* ActionDone are the only steps that end the suspension, and they are always enabled),
\* the 100 ms poll of the pause loop goes on once the pause is lifted; and with an
\* application that follows every pause by a call of resumeWorkflow or cancelWorkflow
FairWorkflow ==
  /\ \A e \in 1..MaxExecutions : []<>(~Awaiting(e))
  /\ SF_vars(\E e \in DOMAIN executions : PausePoll(e))
  /\ WF_vars(workflowPaused /\ (resumeWorkflow \/ cancelWorkflow))

SpecWorkflowFair == InitWorkflow /\ [][NextWorkflow]_vars /\ FairWorkflow

\* ---- PCM16 conversions ----------------------------------------------------
\* the integer part of a / b (b > 0), as the conversion of a number to an integer does
TruncDiv(a, b) == IF a >= 0 THEN a \div b ELSE -((-a) \div b)

\* the int16 that holds integer v: v modulo 2^16 in [-32768, 32767]
ToInt16(v) == ((v + 32768) % 65536) - 32768

\* Math.max(-1, Math.min(1, x)) for x = n / SampleScale
Clamp(n) == IF n < -SampleScale THEN -SampleScale ELSE IF n > SampleScale THEN SampleScale ELSE n

\* AudioProcessor.process: int16[i] = s < 0 ? s * 0x8000 : s * 0x7FFF, for the float
\* n / SampleScale
EncodeSample(n) ==
  LET c == Clamp(n)
  IN  ToInt16(IF c < 0 THEN TruncDiv(c * NegativeScale, SampleScale)
              ELSE TruncDiv(c * PositiveScale, SampleScale))

\* playAudio: float32[i] = sample / 32768.0, as numerator over DecodeScale
DecodeSample(pcm) == pcm

Samples == (-SampleScale)..SampleScale

\* the worklet converts a sample
Encode ==
  /\ codec.phase = "float"
  /\ codec' = [codec EXCEPT !.phase = "int16", !.pcm = EncodeSample(codec.sample)]
  /\ UNCHANGED <<options, wfVars, toolCalls, sessVars, frameVars, isMuted, micVars,
                 isSpeakerMuted, audioVars, trVars, outbox, histVars, lastCommand>>

\* playAudio converts it back
Decode ==
  /\ codec.phase = "int16"
  /\ codec' = [codec EXCEPT !.phase = "decoded", !.decoded = DecodeSample(codec.pcm)]
  /\ UNCHANGED <<options, wfVars, toolCalls, sessVars, frameVars, isMuted, micVars,
                 isSpeakerMuted, audioVars, trVars, outbox, histVars, lastCommand>>

\* The two conversions alone, for every sample
InitCodec ==
  /\ InitHook
  /\ options = DefaultOptions
  /\ \E n \in Samples :
       codec = [phase |-> "float", sample |-> n, pcm |-> 0, decoded |-> 0]

NextCodec == Encode \/ Decode

SpecCodec == InitCodec /\ [][NextCodec]_vars

\* ---- tool calls ----------------------------------------------------------
\* the tool names of the UI commands (one of them) and another tool name
UICommands == {"ask_user"}

ToolNames == UICommands \cup {"lookup"}

\* what a call of the onToolCall handler does: it returns a value, returns a promise
\* that is still pending, or throws
HandlerOutcomes == {"value", "pending", "throws"}

\* the tool_result message with the given id; failed: its result is { error }
ToolResult(id, failed, sock) ==
  [kind |-> "tool_result", sock |-> sock, toolCallId |-> id, failed |-> failed]

\* socketRef.current.send of a tool_result, if the socket of socketRef is open
SentIfOpen(id, failed) ==
  IF SocketRefOpen(socketRef, sockets) THEN <<ToolResult(id, failed, socketRef)>> ELSE <<>>

\* case 'tool_call' of the onmessage of socket s, with a toolCallId and the tool name
\* `name`; outcome is what the handler does if it is called
ToolCall(s, name, outcome) ==
  /\ sockets[s].readyState = "OPEN"
  /\ LET id == Len(toolCalls) + 1
         called == name \notin UICommands /\ options.onToolCall
         sent == IF called /\ outcome = "value" THEN SentIfOpen(id, FALSE) ELSE <<>>
     IN  /\ called \/ outcome = "value"
         /\ toolCalls' = Append(toolCalls,
              [name |-> name,
               sock |-> s,
               handler |-> IF ~called THEN "none"
                           ELSE CASE outcome = "value" -> "resolved"
                                  [] outcome = "pending" -> "pending"
                                  [] outcome = "throws" -> "threw",
               results |-> Len(sent)])
         /\ outbox' = sent
  /\ lastCommand' = AfterStep
  /\ UNCHANGED <<options, wfVars, codec, sessVars, frameVars, isMuted, micVars, isSpeakerMuted,
                 audioVars, trVars, histVars>>

\* the promise the handler returned for tool call id is fulfilled or rejected
HandlerSettles(id, fulfilled) ==
  /\ toolCalls[id].handler = "pending"
  /\ LET sent == SentIfOpen(id, ~fulfilled)
     IN  /\ toolCalls' = [toolCalls EXCEPT
                            ![id].handler = IF fulfilled THEN "resolved" ELSE "rejected",
                            ![id].results = @ + Len(sent)]
         /\ outbox' = sent
  /\ lastCommand' = AfterStep
  /\ UNCHANGED <<options, wfVars, codec, sessVars, frameVars, isMuted, micVars, isSpeakerMuted,
                 audioVars, trVars, histVars>>

\* sendToolResult(toolCallId, result), called by the application
sendToolResult(id) ==
  /\ LET sent == SentIfOpen(id, FALSE)
     IN  /\ toolCalls' = [toolCalls EXCEPT ![id].results = @ + Len(sent)]
         /\ outbox' = sent
  /\ lastCommand' = AfterStep
  /\ UNCHANGED <<options, wfVars, codec, sessVars, frameVars, isMuted, micVars, isSpeakerMuted,
                 audioVars, trVars, histVars>>

\* The session state machine with the tool calls, with and without a handler
ToolNext ==
  \/ \E s \in DOMAIN sockets, name \in ToolNames, outcome \in HandlerOutcomes :
       Len(toolCalls) < MaxToolCalls /\ ToolCall(s, name, outcome)
  \/ \E id \in DOMAIN toolCalls, fulfilled \in BOOLEAN : HandlerSettles(id, fulfilled)
  \/ \E id \in DOMAIN toolCalls :
       toolCalls[id].results < MaxToolResults /\ sendToolResult(id)

InitTools ==
  /\ Init
  /\ \E h \in BOOLEAN : options = [DefaultOptions EXCEPT !.maxAttempts = 1, !.onToolCall = h]

NextTools ==
  \/ SessionNext(MaxToolSockets, LiveSockets = {}, {FALSE})
  \/ ToolNext

SpecTools == InitTools /\ [][NextTools]_vars

\* The session state machine with the two transcript channels and the clock, with one
\* automatic reconnection
TranscriptNext ==
  \/ \E s \in DOMAIN sockets, t \in Fragments :
       /\ Len(inputBuf) + Len(outputBuf) + Len(t) <= MaxPending
       /\ Len(transcripts) < MaxTranscriptList
       /\ InputTranscription(s, t)
  \/ \E s \in DOMAIN sockets, t \in Fragments :
       /\ Len(inputBuf) + Len(outputBuf) + Len(t) <= MaxPending
       /\ Len(transcripts) < MaxTranscriptList
       /\ OutputTranscription(s, t)
  \/ InputTimerFire
  \/ OutputTimerFire
  \/ Tick

InitTranscript == Init /\ options = [DefaultOptions EXCEPT !.maxAttempts = 1]

NextTranscript ==
  \/ SessionNext(MaxTranscriptSockets, LiveSockets = {}, {FALSE})
  \/ TranscriptNext

SpecTranscript == InitTranscript /\ [][NextTranscript]_vars

\* The session state machine with the audio playback, for a playback context that
\* starts running and for one that starts suspended
PlaybackNext ==
  \/ \E s \in DOMAIN sockets, b \in ByteLengths, r \in SourceRates : AudioChunk(s, b, r)
  \/ ResumeResolved
  \/ PlaybackEnded
  \/ \E m \in BOOLEAN : setSpeakerMutedState(m)

InitPlayback ==
  /\ Init
  /\ \E a \in BOOLEAN : options = [DefaultOptions EXCEPT !.autoplay = a]

NextPlayback ==
  \/ SessionNext(MaxPlaybackSockets, LiveSockets = {}, {FALSE})
  \/ PlaybackNext

SpecPlayback == InitPlayback /\ [][NextPlayback]_vars

\* The same with the events the browser is bound to deliver: a source that was started
\* reaches its end, and a resume() that is pending is settled
FairPlayback == WF_vars(PlaybackEnded) /\ WF_vars(ResumeResolved)

SpecPlaybackFair == InitPlayback /\ [][NextPlayback]_vars /\ FairPlayback

\* The session state machine alone with several sockets in use at a time, for every
\* value of reconnection.maxAttempts
InitRace ==
  /\ Init
  /\ options.autoplay
  /\ ~options.onToolCall
  /\ ~options.vad
  /\ ~options.welcomeMessage
  /\ ~options.tools

NextRace == SessionNext(MaxRaceSockets, Cardinality(LiveSockets) < MaxRaceLive, {FALSE})

SpecRace == InitRace /\ [][NextRace]_vars

\* The session state machine alone under the default options, long enough to
\* exhaust the reconnect attempts; the application calls connect and retry only
\* while no socket is live
InitBackoff == Init /\ options = DefaultOptions

NextBackoff == SessionNext(MaxBackoffSockets, LiveSockets = {}, {FALSE})

SpecBackoff == InitBackoff /\ [][NextBackoff]_vars

\* ------------------------------------------------------------------------
\* Properties
\* ------------------------------------------------------------------------
\* socket s delivers its close event in this step
Closes(s) == sockets[s].readyState # "CLOSED" /\ sockets'[s].readyState = "CLOSED"

\* C1: automatic reconnection schedules at most maxReconnectAttempts reconnects in a
\* row without the session reaching 'connected' in between (a 6th consecutive
\* automatic attempt never happens with maxAttempts = 5).
C1_AtMostMaxAttempts == autoSinceConnected <= maxReconnectAttempts

\* the delays of the default options
DefaultDelays == <<1000, 2000, 4000, 8000, 10000>>

\* what the k-th abnormal close in a row has to do to socket s
KthCloseOutcome(s, k) ==
  IF k <= maxReconnectAttempts
  THEN /\ sockets'[s].timer = "pending"
       /\ sockets'[s].delay = DefaultDelays[k]
       /\ sockets'[s].delay = Min(initialReconnectDelay * Pow(reconnectBackoffFactor, k - 1),
                                  maxReconnectDelay)
       /\ connectionState' = "reconnecting"
  ELSE /\ sockets'[s].timer = "none"
       /\ connectionState' = "error"

\* C2 as stated: the k-th abnormal close in a row with no socket opening in between
\* schedules the delay min(initialDelay * backoffFactor^(k-1), maxDelay), that is
\* 1000, 2000, 4000, 8000, 10000, and the sixth schedules nothing and sets 'error'.
C2_DelayOfKthCloseSinceOpen ==
  [][\A s \in DOMAIN sockets :
       (Closes(s) /\ closesSinceOpen' = closesSinceOpen + 1)
         => KthCloseOutcome(s, closesSinceOpen')]_vars

\* C2 amended: the same for the k-th abnormal close in a row with neither a socket
\* opening nor a disconnect() nor an effective retry() in between.
C2_DelayOfKthCloseSinceReset ==
  [][\A s \in DOMAIN sockets :
       (Closes(s) /\ closesSinceReset' = closesSinceReset + 1)
         => KthCloseOutcome(s, closesSinceReset')]_vars

\* C2 witness: six abnormal closes in a row have happened, the fifth scheduled the
\* capped delay and the sixth left the session in 'error'
C2_Witness ==
  /\ closesSinceReset = maxReconnectAttempts + 1
  /\ connectionState = "error"
  /\ error = "Connection lost. Please refresh the page to reconnect."

\* C3: after disconnect(), and until the application calls connect or retry, the
\* close of a socket that disconnect() closed schedules no reconnect and creates no
\* socket: the step leaves no timer behind and does not move the session to
\* 'reconnecting' or 'connecting'.
C3_DisconnectCloseNeverReconnects ==
  [][\A s \in DOMAIN sockets :
       (DisconnectLast /\ sockets[s].readyState = "CLOSING" /\ Closes(s))
         => /\ sockets'[s].timer = "none"
            /\ connectionState' \notin {"reconnecting", "connecting"}
            /\ Len(sockets') = Len(sockets)]_vars

\* the reconnect timer of socket s, pending in this state, fires in this step
TimerFires(s) == sockets[s].timer = "pending" /\ sockets'[s].timer # "pending"

\* C4: disconnect() cancels every pending timer: it leaves no debounce timer and no
\* frame interval armed, and a reconnect timer that was pending when disconnect() was
\* called never calls connect (it creates no socket and changes no session state).
C4_DisconnectCancelsTimers ==
  [][/\ lastCommand' \in {"disconnect", "disconnect-again"}
          => (~inputTimer' /\ ~outputTimer' /\ ~frameInterval')
     /\ \A s \in DOMAIN sockets :
          (sockets[s].stale /\ TimerFires(s))
            => (Len(sockets') = Len(sockets) /\ UNCHANGED <<connectionState, socketRef>>)]_vars

\* what C5 lists of the state disconnect() leaves
DisconnectedState ==
  /\ connectionState = "idle"
  /\ audioBuffer = <<>>
  /\ ~isPlaying
  /\ inputBuf = <<>>
  /\ outputBuf = <<>>
  /\ streamingText = NullText
  /\ streamingUserText = NullText
  /\ reconnectAttempts = 0
  /\ reconnectDelay = initialReconnectDelay

C6_NormalCloseDisconnects ==
  [][\A s \in DOMAIN sockets :
       SocketClose(s, NormalClosure)
         => /\ connectionState' = "disconnected"
            /\ reconnectAttempts' = reconnectAttempts
            /\ sockets'[s].timer = "none"]_vars

\* what a transport failure of socket s does to the session
FailureOutcome(s) ==
  IF reconnectAttempts < maxReconnectAttempts
  THEN connectionState' = "reconnecting" /\ sockets'[s].timer = "pending"
  ELSE connectionState' = "error" /\ sockets'[s].timer = "none"

\* the step creates a socket, makes it the current one and sets 'connecting'
NewAttempt ==
  /\ Len(sockets') = Len(sockets) + 1
  /\ socketRef' = Len(sockets')
  /\ sockets'[socketRef'].readyState = "CONNECTING"
  /\ connectionState' = "connecting"

\* C7: a transport failure while attempts remain leaves the session in
\* 'reconnecting' with the backoff timer pending, every backoff timer that fires
\* makes a new connection attempt, and a failure leaves 'error' only when the
\* attempts are exhausted.
C7_FailureThenNewAttempt ==
  [][\A s \in DOMAIN sockets :
       /\ SocketFail(s) => FailureOutcome(s)
       /\ TimerFires(s) => NewAttempt]_vars

\* the welcome message is among the messages `box`
WelcomeSent(box) == \E i \in DOMAIN box : box[i].kind = "text"

\* C8: connectionState becomes 'connected' only by a setup_complete message; the
\* opening of the socket leaves the state 'connecting'; microphone capture, frame
\* capture and the welcome message are started only by that message.
C8_ConnectedOnlyBySetupComplete ==
  [][/\ (connectionState' = "connected" /\ connectionState # "connected")
          => \E s \in DOMAIN sockets : SetupComplete(s)
     /\ \A s \in DOMAIN sockets :
          SocketOpen(s) => (connectionState = "connecting" /\ connectionState' = "connecting")
     /\ (\/ Len(captures') > Len(captures)
         \/ (frameInterval' /\ ~frameInterval)
         \/ WelcomeSent(outbox'))
          => \E s \in DOMAIN sockets : SetupComplete(s)]_vars

\* C8 witness: setup_complete has just made the session connected, started both
\* captures and sent the first frame and the welcome message
C8_Witness ==
  /\ connectionState = "connected"
  /\ frameInterval
  /\ Len(captures) = 1
  /\ captures[1].stage = "gum"
  /\ WelcomeSent(outbox)
  /\ \E i \in DOMAIN outbox : outbox[i].kind = "frame"

\* C9: retry() called in 'idle', 'connecting', 'connected' or 'reconnecting' leaves
\* the attempt counter, the delay, the error string, the state and the sockets
\* unchanged; it resets and connects only in 'error' and 'disconnected'.
C9_RetryOnlyFromErrorOrDisconnected ==
  [][retry(MaxRaceSockets) =>
       IF connectionState \in {"error", "disconnected"}
       THEN reconnectAttempts' = 0 /\ reconnectDelay' = initialReconnectDelay
       ELSE UNCHANGED <<reconnectAttempts, reconnectDelay, error, connectionState, socketRef,
                        sockets>>]_vars

\* C9 witness: retry() was ignored while a reconnect was pending after one failure
C9_Witness ==
  /\ lastCommand = "retry-ignored"
  /\ connectionState = "reconnecting"
  /\ reconnectAttempts = 1
  /\ error = "Connection error"
  /\ \E s \in DOMAIN sockets : sockets[s].timer = "pending"

\* C10: a captured frame is sent as an 'audio' message only if, when the frame is
\* handled, the mute flag is false and VAD is disabled or the user-speaking flag is
\* true.
C10_AudioOnlyWhenUnmuted ==
  [][(\E i \in DOMAIN outbox' : outbox'[i].kind = "audio")
       => (~isMuted /\ (~options.vad \/ isUserSpeaking))]_vars

\* an 'audio' message is among the messages `box`
AudioSent(box) == \E i \in DOMAIN box : box[i].kind = "audio"

\* C11: once the VAD of a capture has failed to initialise, every frame of that
\* capture that is handled while unmuted (now and when the capture started) and
\* while the current socket is open is sent as an 'audio' message.
C11_VadFailureAlwaysTransmits ==
  [][\A c \in DOMAIN captures :
       (/\ MicFrame(c)
        /\ captures[c].vadFailed
        /\ ~isMuted
        /\ ~captures[c].capMuted
        /\ SocketRefOpen(socketRef, sockets))
         => AudioSent(outbox')]_vars

\* C12: while the speaker-mute flag is set, the handling of an inbound audio chunk
\* leaves the queue empty and starts no playback.
C12_NoAudioWhileSpeakerMuted ==
  [][\A s \in DOMAIN sockets, b \in ByteLengths, r \in SourceRates :
       (AudioChunk(s, b, r) /\ isSpeakerMuted)
         => /\ audioBuffer' = <<>>
            /\ sourcesPlaying' = sourcesPlaying
            /\ isPlaying' = isPlaying]_vars
\* ---- playback: threshold, chaining, order ---------------------------------
\* the buffers handed to source.start() among the effects `box` of a step
Started(box) == {i \in DOMAIN box : box[i].kind = "playback"}

\* floor(floor(minBufferMs / 1000 * 24000) * deviceRate / 24000)
PlaybackThreshold == (((minBufferMs * 24000) \div 1000) * options.deviceRate) \div 24000

\* C13: a playback buffer that starts in a step taken while the playing flag was
\* false holds at least the threshold number of samples derived from minBufferMs;
\* no buffer starts from a queue below the threshold while the pipeline is idle.
C13_StartsOnlyAtThreshold ==
  [][\A i \in Started(outbox') :
       isPlaying \/ outbox'[i].samples >= PlaybackThreshold]_vars

\* an idle pipeline has started a buffer made of two accumulated chunks
C13_Witness ==
  \E i \in Started(outbox) :
    /\ outbox[i].by = "playAudio"
    /\ Len(outbox[i].ids) = 2
    /\ outbox[i].samples = PlaybackThreshold

Outstanding(q, pend) ==
  Ids(q) \o SelectSeq([i \in DOMAIN pend |-> pend[i].id], LAMBDA id : id # 0)

\* the arrival numbers of the chunks handed to playback by a step, in order
RECURSIVE PlayedIds(_)
PlayedIds(box) ==
  IF box = <<>> THEN <<>>
  ELSE (IF Head(box).kind = "playback" THEN Head(box).ids ELSE <<>>) \o PlayedIds(Tail(box))

StrictlyIncreasing(ids) == \A i, j \in DOMAIN ids : i < j => ids[i] < ids[j]

IsPrefix(p, q) == Len(p) <= Len(q) /\ \A i \in DOMAIN p : p[i] = q[i]

\* C15: the chunks handed to playback are the decoded chunks in arrival order. In a
\* step that starts a buffer, the chunks played followed by the chunks still
\* outstanding are in strictly increasing arrival order (none twice, none before an
\* earlier one) and begin with all the chunks that were outstanding before the step.
C15_PlayedInArrivalOrder ==
  [][PlayedIds(outbox') # <<>> =>
       LET all == PlayedIds(outbox') \o Outstanding(audioBuffer', resuming')
       IN  /\ StrictlyIncreasing(all)
           /\ IsPrefix(Outstanding(audioBuffer, resuming), all)]_vars

\* two chunks that waited for the context to run have been played as one buffer
C15_Witness ==
  /\ ~options.autoplay
  /\ playbackContext = "open"
  /\ \E i \in Started(outbox) : Len(outbox[i].ids) = 2 /\ outbox[i].ids[1] < outbox[i].ids[2]

\* ---- transcripts: debounce, independence, ids ------------------------------
RECURSIVE Concat(_)
Concat(fs) == IF fs = <<>> THEN <<>> ELSE Head(fs) \o Concat(Tail(fs))

InputFragment == \E s \in DOMAIN sockets, t \in Fragments : InputTranscription(s, t)

OutputFragment == \E s \in DOMAIN sockets, t \in Fragments : OutputTranscription(s, t)

\* list' is list with one more Transcript, of the given role and text
OneMore(list, role, text) ==
  /\ Len(list') = Len(list) + 1
  /\ SubSeq(list', 1, Len(list)) = list
  /\ list'[Len(list')].role = role
  /\ list'[Len(list')].text = text

\* no Transcript is emitted while fragments arrive, each fragment leaves the debounce
\* timeout of its channel armed, and the list grows at the timeouts only
NoTranscriptWhileFragmentsArrive ==
  /\ InputFragment => (transcripts' = transcripts /\ inputTimer')
  /\ OutputFragment => (transcripts' = transcripts /\ outputTimer')
  /\ Len(transcripts') > Len(transcripts) => (InputTimerFire \/ OutputTimerFire)

\* C16 as stated: no Transcript is emitted while the fragments of a channel arrive,
\* and when the debounce timeout fires after the last of them exactly one Transcript
\* is emitted, whose text is the trimmed concatenation of all of them.
C16_OneTranscriptPerWindow ==
  [][/\ NoTranscriptWhileFragmentsArrive
     /\ InputTimerFire => OneMore(transcripts, "user", Trim(Concat(inputFragments)))
     /\ OutputTimerFire
          => OneMore(transcripts, "assistant", Trim(Concat(outputFragments)))]_vars

\* C16 amended: no Transcript is emitted while the fragments of a channel arrive; when
\* the debounce timeout fires after the last of them, exactly one Transcript with the
\* trimmed concatenation of all of them is emitted if that text is not empty, and
\* none if the fragments hold white space only.
C16_OneTranscriptPerNonEmptyWindow ==
  [][/\ NoTranscriptWhileFragmentsArrive
     /\ InputTimerFire =>
          IF Trim(Concat(inputFragments)) # <<>>
          THEN OneMore(transcripts, "user", Trim(Concat(inputFragments)))
          ELSE transcripts' = transcripts
     /\ OutputTimerFire =>
          IF Trim(Concat(outputFragments)) # <<>>
          THEN OneMore(transcripts, "assistant", Trim(Concat(outputFragments)))
          ELSE transcripts' = transcripts]_vars

\* three fragments of the user channel have been finalized as one Transcript
C16_Witness ==
  /\ Len(transcripts) = 1
  /\ transcripts[1].role = "user"
  /\ transcripts[1].text = <<"a", " ", "a">>
  /\ ~inputTimer
  /\ streamingUserText = NullText

\* C17: a fragment or a timeout of one transcript channel leaves the pending buffer,
\* the streaming value and the debounce timeout of the other channel as they were.
C17_ChannelsIndependent ==
  [][/\ (InputFragment \/ InputTimerFire)
          => UNCHANGED <<outputBuf, streamingText, outputTimer>>
     /\ (OutputFragment \/ OutputTimerFire)
          => UNCHANGED <<inputBuf, streamingUserText, inputTimer>>]_vars

\* the assistant channel was finalized while the user channel had text pending
C17_Witness ==
  /\ Len(transcripts) = 1
  /\ transcripts[1].role = "assistant"
  /\ ~outputTimer /\ outputBuf = <<>> /\ streamingText = NullText
  /\ inputTimer /\ inputBuf = <<"a", "a">> /\ streamingUserText = <<"a", "a">>

\* C18: the Transcripts of the list have pairwise different ids.
C18_TranscriptIdsUnique ==
  \A i, j \in DOMAIN transcripts : i # j => transcripts[i].id # transcripts[j].id

\* ---- workflow: condition steps and cancellation ------------------------------
\* C19: a condition step with next = [A, B] is recorded as successful, and the step
\* started after it is A when its DOM condition held and B when it did not.
C19_ConditionBranches ==
  \A e \in DOMAIN executions :
    LET ex == executions[e] IN
    \A i \in DOMAIN ex.history :
      LET step == ex.workflow.steps[ex.history[i].stepId] IN
      (step.type = "condition" /\ Len(step.next) = 2)
        => /\ ex.history[i].success
           /\ Len(ex.started) > i
                => ex.started[i + 1] = IF ex.history[i].conditionHeld
                                       THEN step.next[1] ELSE step.next[2]

\* C20: once cancelWorkflow() was called while a wait step of a running execution
\* was suspended, the execution starts no further step; when it ends, its status is
\* 'failed' with error 'Workflow cancelled' and its history holds exactly the steps it
\* started, each of them completed, in order.
C20_CancelDuringWait ==
  \A e \in DOMAIN executions :
    LET ex == executions[e] IN
    ex.cancelPoint > 0
      => /\ Len(ex.started) = ex.cancelPoint
         /\ ex.pc = "done"
              => /\ ex.status = "failed"
                 /\ ex.error = "Workflow cancelled"
                 /\ [i \in DOMAIN ex.history |-> ex.history[i].stepId] = ex.started

\* the executions whose interpreter loop has not ended
Active == {e \in DOMAIN executions : executions[e].pc # "done"}

\* C21: at most one workflow execution is active at any time, and a cancel or a pause
\* that was requested stays in force as long as an execution that was active when it
\* was requested is: executeWorkflow neither starts a second interpreter loop nor
\* clears the flags under a running one.
C21_OneActiveExecution ==
  [][/\ Cardinality(Active') <= 1
     /\ (workflowCancelled /\ ~workflowCancelled') => Active = {}
     /\ (workflowPaused /\ ~workflowPaused' /\ executeWorkflow) => Active = {}]_vars

\* C22: a step whose recorded result is unsuccessful is followed by its onError step
\* when it has one (unless the execution was cancelled or is paused before that step);
\* when it has none the failed step is the last entry of the history and the execution
\* has ended 'failed' with the error of the step (or as cancelled).
C22_FailedStepHandling ==
  \A e \in DOMAIN executions :
    LET ex == executions[e] IN
    \A i \in DOMAIN ex.history :
      LET step == ex.workflow.steps[ex.history[i].stepId] IN
      ~ex.history[i].success =>
        IF step.onError # NoStep
        THEN \/ Len(ex.started) > i /\ ex.started[i + 1] = step.onError
             \/ ex.pc = "paused" /\ ex.currentStepId = step.onError
             \/ ex.pc = "done" /\ ex.error = "Workflow cancelled"
        ELSE /\ i = Len(ex.history)
             /\ ex.pc = "done"
             /\ ex.status = "failed"
             /\ ex.error \in {ex.history[i].error, "Workflow cancelled"}

\* what the callers of the hook see of an execution
Visible(ex) == [status |-> ex.status, error |-> ex.error, history |-> ex.history]

\* C28: pauseWorkflow, resumeWorkflow and cancelWorkflow called with no execution or
\* with a 'completed' or 'failed' one change neither flag nor any execution record nor
\* the status shown; an execution that has ended keeps its status, error and history.
C28_ControlsIgnoredWhenTerminal ==
  [][/\ ((pauseWorkflow \/ resumeWorkflow \/ cancelWorkflow)
          /\ workflowExecution \in Terminal)
          => /\ UNCHANGED <<workflowPaused, workflowCancelled, workflowExecution>>
             /\ \A e \in DOMAIN executions : Visible(executions'[e]) = Visible(executions[e])
     /\ \A e \in DOMAIN executions :
          executions[e].pc = "done" => Visible(executions'[e]) = Visible(executions[e])]_vars

\* cancelWorkflow() was called after the execution had ended
C28_Witness ==
  /\ lastControl = "cancel"
  /\ workflowExecution = "completed"
  /\ executions # <<>>
  /\ ~workflowCancelled

\* ---- tool calls ----------------------------------------------------------------
\* a tool_result with the given id and an { error } result is among the messages sent
ErrorResultSent(box, id) ==
  \E i \in DOMAIN box :
    box[i].kind = "tool_result" /\ box[i].toolCallId = id /\ box[i].failed

\* C23: when the onToolCall handler fails for a tool call while the socket is open,
\* by throwing or by a promise that rejects, a tool_result with the toolCallId of the
\* call and an { error } result is sent in that step.
C23_HandlerFailureAnswered ==
  [][/\ \A s \in DOMAIN sockets, name \in ToolNames :
          (/\ ToolCall(s, name, "throws")
           /\ SocketRefOpen(socketRef, sockets))
            => ErrorResultSent(outbox', Len(toolCalls'))
     /\ \A id \in DOMAIN toolCalls :
          (HandlerSettles(id, FALSE) /\ SocketRefOpen(socketRef, sockets))
            => ErrorResultSent(outbox', id)]_vars

\* C24: every tool call received has at most one tool_result, and exactly one as soon
\* as no handler promise is pending for it.
C24_ExactlyOneToolResult ==
  \A id \in DOMAIN toolCalls :
    /\ toolCalls[id].results <= 1
    /\ toolCalls[id].handler # "pending" => toolCalls[id].results = 1


\* ---- C25 ----
\* the distance between the float n / SampleScale and the float d / DecodeScale is at most
\* one quantization step, 1 / 32768
WithinOneStep(n, d) ==
  LET diff == n * DecodeScale - d * SampleScale
  IN  diff <= SampleScale /\ -diff <= SampleScale

\* C25: every sample x in [-1, 1] encodes to an integer in [-32768, 32767], and decoding
\* that integer gives a value within one quantization step (1/32768) of x.
C25_RoundTripWithinOneStep ==
  codec.phase = "decoded"
    => /\ codec.pcm \in (-32768)..32767
       /\ WithinOneStep(codec.sample, codec.decoded)

\* ---- C26 ----
\* C26: retry called while connectionState is 'error' or 'disconnected', however that
\* state was entered, resets the attempt counter to 0 and the delay to the initial delay,
\* clears the error and starts a connection attempt: the state becomes 'connecting'
\* (stated for a proxy URL that new WebSocket accepts).
C26_RetryReconnects ==
  [][(retry(MaxRaceSockets) /\ RetryAllowed(connectionState) /\ options.proxyUrlValid)
       => /\ reconnectAttempts' = 0
          /\ reconnectDelay' = initialReconnectDelay
          /\ error' = "null"
          /\ connectionState' = "connecting"]_vars

\* ---- C27 ----
\* the Transcripts of one role, in the order of the list
RECURSIVE OfRole(_, _)
OfRole(list, role) ==
  IF list = <<>> THEN <<>>
  ELSE IF Head(list).role = role THEN <<Head(list)>> \o OfRole(Tail(list), role)
       ELSE OfRole(Tail(list), role)

Malformed(bytes) == bytes - (bytes % 2) < 2

\* the pending playAudio calls of pend whose payload is well formed
RECURSIVE WellFormed(_)
WellFormed(pend) ==
  IF pend = <<>> THEN <<>>
  ELSE IF Malformed(Head(pend).bytes) THEN WellFormed(Tail(pend))
       ELSE <<Head(pend)>> \o WellFormed(Tail(pend))

\* C29: a malformed audio payload is dropped without effect: the queue, the playing
\* flag, connectionState and the error string are unchanged by it, at once or when the
\* playAudio call that waited for the context to resume continues, and the valid chunks
\* are decoded and queued as if it had not been sent.
C29_MalformedDropped ==
  [][/\ \A s \in DOMAIN sockets, b \in ByteLengths, r \in SourceRates :
          AudioChunk(s, b, r) /\ Malformed(b)
            => /\ UNCHANGED <<audioBuffer, isPlaying, isSpeaking, sourcesPlaying,
                              connectionState, error>>
               /\ outbox' = <<>>
     /\ ResumeResolved
          => /\ PlaybackState' = [Resumed(PlaybackState, WellFormed(resuming))
                                    EXCEPT !.started = <<>>]
             /\ outbox' = Resumed(PlaybackState, WellFormed(resuming)).started
             /\ UNCHANGED <<connectionState, error>>]_vars

\* ---- C30 ----
\* the catch block of startMicCapture runs for capture c
CaptureFails(c) == MicDenied(c) \/ ModuleLoaded(c, TRUE)

\* C30: a failure to start microphone capture after setup_complete sets the error
\* string 'Failed to access microphone' and does not end the session: connectionState,
\* the socket, the playback state and the transcript state stay as they are, the capture
\* stays failed, and while every capture started has failed no 'audio' message is sent.
C30_CaptureFailureKeepsSession ==
  [][/\ \A c \in DOMAIN captures :
          /\ CaptureFails(c)
               => /\ error' = "Failed to access microphone"
                  /\ captures'[c].stage = "failed"
                  /\ UNCHANGED <<connectionState, socketRef, sockets, reconnectAttempts,
                                 reconnectDelay, frameVars, audioVars, trVars>>
          /\ captures[c].stage = "failed"
               => (c \in DOMAIN captures' /\ captures'[c].stage = "failed")
     /\ (\A c \in DOMAIN captures : captures[c].stage = "failed")
          => \A i \in DOMAIN outbox' : outbox'[i].kind # "audio"]_vars

\* the microphone was refused in a connected session: the error is reported, the state
\* is still 'connected' and the socket still open
C30_Witness ==
  /\ captures # <<>>
  /\ captures[1].stage = "failed"
  /\ error = "Failed to access microphone"
  /\ connectionState = "connected"
  /\ SocketRefOpen(socketRef, sockets)

\* ---- C31 ----
\* a close, error or message event of socket s is handled
EventOf(s) ==
  \/ \E code \in {NormalClosure, AbnormalClosure} : SocketClose(s, code)
  \/ SocketFail(s)
  \/ SetupComplete(s)
  \/ ServerError(s)
  \/ ServerDisconnected(s)

\* C31: an event of a socket that is no longer the current one (replaced by a later
\* connect, or released by disconnect) does not change connectionState, does not stop
\* the frame capture and does not schedule a reconnect.
C31_StaleSocketEventsIgnored ==
  [][\A s \in DOMAIN sockets :
       (s # socketRef /\ EventOf(s))
         => /\ connectionState' = connectionState
            /\ frameInterval' = frameInterval
            /\ sockets'[s].timer # "pending"]_vars

\* ---- C32 ----
\* C32: at most one socket that is connecting or open exists at any time.
C32_OneLiveTransport ==
  Cardinality({s \in DOMAIN sockets : sockets[s].readyState \in {"CONNECTING", "OPEN"}}) <= 1

\* ---- C33 ----
\* C33: once disconnect() has set connectionState to 'idle', the state stays 'idle'
\* until the application calls connect or retry: no transport event in between moves it.
C33_IdleUntilNextCommand ==
  [][(DisconnectLast /\ connectionState = "idle"
        /\ lastCommand' \in {"disconnect", "disconnect-again", "disconnected"})
       => connectionState' = "idle"]_vars

\* ---- C34 ----
\* C34: under fairness of the playback-end events, chunks that are queued do not stay
\* in the queue forever: the queue is emptied again, by a buffer that starts playing
\* them or by a disconnect or speaker mute.
C34_QueuedEventuallyPlayed == (audioBuffer # <<>>) ~> (audioBuffer = <<>>)

\* ---- C35 ----
\* capture c holds the microphone or a running input context
CaptureActive(c) == captures[c].streamLive \/ captures[c].ctxOpen

\* C35: after disconnect() has run, and until the application connects again, no
\* microphone capture is active and no 'audio' message is sent, however the pending
\* startMicCapture interleaves with stopMicCapture.
C35_NoCaptureAfterDisconnect ==
  DisconnectLast
    => /\ \A c \in DOMAIN captures : ~CaptureActive(c)
       /\ \A i \in DOMAIN outbox : outbox[i].kind # "audio"

\* ---- C36 ----
\* C36: in every reachable state, connectionState = 'error' implies that the error
\* string is not null.
C36_ErrorStateHasMessage == connectionState = "error" => error # "null"

\* ---- C37 ----
\* C37: the tool_result that the settling of an onToolCall promise sends goes out on
\* the socket on which the tool_call arrived, never on a socket opened later.
C37_ResultOnArrivalSocket ==
  [][\A id \in DOMAIN toolCalls, fulfilled \in BOOLEAN :
       HandlerSettles(id, fulfilled)
         => \A i \in DOMAIN outbox' :
              outbox'[i].kind = "tool_result" => outbox'[i].sock = toolCalls[id].sock]_vars

\* ---- C38 ----
\* C38: the workflows registered are acyclic; provided every pause is followed by a
\* call of resume or cancel, every execution started reaches 'completed' or 'failed',
\* and its history never has more entries than the workflow has steps.
C38_ExecutionTerminates ==
  /\ [](\A e \in DOMAIN executions : Len(executions[e].history) <= Cardinality(StepIds))
  /\ \A e \in 1..MaxExecutions :
       (e \in DOMAIN executions)
         ~> (/\ e \in DOMAIN executions
             /\ executions[e].pc = "done"
             /\ executions[e].status \in {"completed", "failed"})

\* the last element of a non-empty list
Last(list) == list[Len(list)]

\* C39: disconnect() cancels both debounce timeouts, empties both transcript buffers
\* and the transcripts list; whenever a Transcript is emitted afterwards, a timeout of
\* its channel was armed and its text is the trimmed concatenation of the fragments
\* that arrived since the last disconnect() (or the last emission of the channel), so
\* no text that was pending at a disconnect() is ever emitted; and a timeout is armed
\* only while such fragments exist.
C39_PendingTextDiscarded ==
  [][/\ disconnect
          => /\ ~inputTimer' /\ ~outputTimer'
             /\ inputBuf' = <<>> /\ outputBuf' = <<>>
             /\ inputSince' = <<>> /\ outputSince' = <<>>
             /\ transcripts' = <<>>
     /\ Len(transcripts') > Len(transcripts)
          => /\ Len(transcripts') = Len(transcripts) + 1
             /\ SubSeq(transcripts', 1, Len(transcripts)) = transcripts
             /\ Last(transcripts').role = "user"
                  => inputTimer /\ Last(transcripts').text = Trim(Concat(inputSince))
             /\ Last(transcripts').role = "assistant"
                  => outputTimer /\ Last(transcripts').text = Trim(Concat(outputSince))
     /\ inputTimer' => inputSince' # <<>> /\ inputBuf' = Concat(inputSince')
     /\ outputTimer' => outputSince' # <<>> /\ outputBuf' = Concat(outputSince')]_vars

\* disconnect() has just discarded pending text: nothing is buffered, no timeout is
\* armed and the list is empty
C39_Witness ==
  /\ discarded /\ lastCommand = "disconnect"
  /\ inputBuf = <<>> /\ outputBuf = <<>> /\ ~inputTimer /\ ~outputTimer
  /\ transcripts = <<>>

\* after a disconnect() that discarded pending text, a Transcript of text that arrived
\* later is in the list
C39_WitnessLater ==
  /\ discarded /\ transcripts # <<>>

\* the next id that the step of history entry h gave back to the interpreter loop
YieldedNext(step, h) ==
  IF h.error = "Condition not met" THEN step.onError
  ELSE CASE step.type = "browser_control" ->
              IF ~step.action THEN NoStep
              ELSE IF h.success THEN First(step.next) ELSE step.onError
         [] step.type = "condition" ->
              IF h.conditionHeld THEN First(step.next)
              ELSE IF Second(step.next) # NoStep THEN Second(step.next) ELSE step.onError
         [] OTHER -> First(step.next)

\* the id execution ex came to after its last recorded step: its entryPoint, or the
\* next id of that step
CameTo(ex) ==
  IF ex.history = <<>> THEN ex.workflow.entryPoint
  ELSE YieldedNext(ex.workflow.steps[Last(ex.history).stepId], Last(ex.history))

\* execution ex came to an id that is the key of no step: an entryPoint that is not,
\* or a next / onError id that is given and is not
NamesNoStep(ex) ==
  /\ CameTo(ex) \notin DOMAIN ex.workflow.steps
  /\ ex.history = <<>> \/ CameTo(ex) # NoStep

\* execution ex has ended and was not cancelled
EndedUncancelled(ex) ==
  /\ ex.pc = "done" /\ ex.workflow # NoWorkflow
  /\ ex.error # "Workflow cancelled"

\* C40: an execution that comes to an id naming no step of its workflow (a missing
\* entryPoint, a next or onError id that does not exist) ends 'failed' with the error
\* 'Step not found: <id>' and no history entry for that id; and an execution ends
\* 'completed' only when its last executed step gave no next id.
C40_StepNotFound ==
  \A e \in DOMAIN executions :
    LET ex == executions[e]
    IN  EndedUncancelled(ex) =>
          /\ NamesNoStep(ex)
               => /\ ex.status = "failed"
                  /\ ex.error = StepNotFound(CameTo(ex))
                  /\ \A i \in DOMAIN ex.history : ex.history[i].stepId # CameTo(ex)
          /\ ex.status = "completed"
               => /\ ex.history # <<>>
                  /\ CameTo(ex) = NoStep

\* the same for the workflows that have an entry point
C40_StepNotFoundWithEntry ==
  \A e \in DOMAIN executions :
    LET ex == executions[e]
    IN  (EndedUncancelled(ex) /\ ex.workflow.entryPoint # NoStep) =>
          /\ NamesNoStep(ex)
               => /\ ex.status = "failed"
                  /\ ex.error = StepNotFound(CameTo(ex))
                  /\ \A i \in DOMAIN ex.history : ex.history[i].stepId # CameTo(ex)
          /\ ex.status = "completed"
               => /\ ex.history # <<>>
                  /\ CameTo(ex) = NoStep

\* an execution ended at a next id that names no step, after two steps
C40_DanglingReached ==
  \E e \in DOMAIN executions :
    /\ EndedUncancelled(executions[e]) /\ NamesNoStep(executions[e])
    /\ Len(executions[e].history) >= 2
    /\ executions[e].error = StepNotFound(MissingStep)

============================================================
